---- MODULE Spec2Model ----
(***************************************************************************)
(* Model of the front-end compilation core of the SUS hardware description *)
(* language compiler: the driver (add_file, update_file, recompile_all of  *)
(* src/compiler_top.rs) and the flattening pass (src/flattening/parse.rs)  *)
(* over the IR schema of src/flattening/mod.rs.                            *)
(*                                                                         *)
(* Identifiers (FlatID, PortID, InterfaceID, ModuleUUID, FileUUID) are     *)
(* 0-based indices as in the arenas of the program; the element with ID k  *)
(* is stored at position k+1 of the TLA+ sequence that models its arena.   *)
(* An Option<T> is a sequence of length 0 (None) or 1 (Some).              *)
(***************************************************************************)
EXTENDS Integers, Sequences, FiniteSets, TLC

(***************************************************************************)
(* Bounds of the exploration.                                              *)
(***************************************************************************)
MaxFiles == 2
MaxUpdates == 1
MaxRecompiles == 2
\* add_debug_span calls in the first region of a thread, and in each later one
MaxSpans == 260
MaxLaterSpans == 2
\* SpanDebugger values created on the thread
MaxDebuggers == 3

\* UUID::PLACEHOLDER, the sentinel of two-phase construction
PLACEHOLDER == -1

\* Module::MAIN_INTERFACE_ID
MAIN_INTERFACE_ID == 0

(***************************************************************************)
(* Syntax trees.  The parser is an external collaborator; a tree is given  *)
(* by the node kinds and the fields the flattener reads through the        *)
(* cursor.  Every declaration node carries the span of its name.           *)
(***************************************************************************)
Num(v) == [kind |-> "number", val |-> v]
Id(n) == [kind |-> "global_identifier", name |-> n]
Un(o, r) == [kind |-> "unary_op", operator |-> o, right |-> r]
Bin(l, o, r) == [kind |-> "binary_op", left |-> l, operator |-> o, right |-> r]
Call(f, as) == [kind |-> "func_call", name |-> f, arguments |-> as]
Paren(e) == [kind |-> "parenthesis_expression", content |-> e]
Arr(a, i) == [kind |-> "array_op", arr |-> a, arr_idx |-> i]
Field(l, n) == [kind |-> "field_access", left |-> l, name |-> n]
ArrT(t, i) == [kind |-> "array_type", arr |-> t, arr_idx |-> i]

\* declaration: io_port_modifiers, declaration_modifiers, type, name, latency_specifier
Decl(io, dm, t, n, sp, lat) ==
    [kind |-> "declaration", io_port_modifiers |-> io, declaration_modifiers |-> dm,
     type |-> t, name |-> n, name_span |-> sp, latency_specifier |-> lat]
\* assign_to: write_modifiers (the list of keywords, empty when the field is absent), expr_or_decl
To(wm, x) == [kind |-> "assign_to", write_modifiers |-> wm, expr_or_decl |-> x]
Standalone(items) == [kind |-> "assign_left_side", items |-> items]
Assign(left, value) == [kind |-> "decl_assign_statement", assign_left |-> left, assign_value |-> value]
Block(stmts) == [kind |-> "block", stmts |-> stmts]
If(c, t, e) == [kind |-> "if_statement", condition |-> c, then_block |-> t, else_block |-> e]
For(d, f, t, b) == [kind |-> "for_statement", for_decl |-> d, from |-> f, to |-> t, block |-> b]
Interface(n, ins, outs) == [kind |-> "interface_statement", name |-> n, inputs |-> ins, outputs |-> outs]
Module(n, ins, outs, body) == [kind |-> "module", name |-> n, inputs |-> ins, outputs |-> outs, block |-> body]

IntT == Id("int")
\* plain declarations `int n`, `input int n`, ...
D(n, sp) == Decl("", "", IntT, n, sp, <<>>)
DIO(io, n, sp) == Decl(io, "", IntT, n, sp, <<>>)
DMod(dm, n, sp) == Decl("", dm, IntT, n, sp, <<>>)
\* `a = e`
Set(n, e) == Assign(<<To(<<>>, Id(n))>>, e)

(***************************************************************************)
(* Linker state.                                                           *)
(***************************************************************************)
VARIABLES
    files,              \* linker.files: FileData per FileUUID
    modules,            \* linker.modules: arena slot per ModuleUUID
    global_namespace,   \* linker.global_namespace: set of <<name, ModuleUUID>>
    pc,                 \* position of the driver: idle, or the stage of recompile_all
    cur,                \* 0-based position of the loop of the current stage
    updates,            \* number of update_file calls so far
    recompiles,         \* number of recompile_all calls started so far
    compiled,           \* a recompile_all has completed and no file was added or updated since
    prev_ir,            \* the instruction lists at the start of a recompile_all of a compiled linker
    same_text_only,     \* every update_file so far gave the file the text it already had
    SPANS_HISTORY,      \* the thread-local TouchedSpansHistory: span_history, num_spans, in_use
    span_debuggers,     \* the SpanDebugger values created so far: defused, dropped
    spans_to_print,     \* Option: the spans the last print_most_recent_spans selected
    assertion_failed,   \* the assert! that failed, "" while none did
    touch               \* which spans the program touches: the i-th recording of a region

vars == <<files, modules, global_namespace, pc, cur, updates, recompiles, compiled, prev_ir,
          same_text_only, SPANS_HISTORY, span_debuggers, spans_to_print, assertion_failed, touch>>

(***************************************************************************)
(* IR schema (src/flattening/mod.rs, with the fields parse.rs writes).     *)
(***************************************************************************)
\* WireReferenceRoot
LocalDecl(decl) == [root |-> "LocalDecl", id |-> decl, port |-> PLACEHOLDER, is_input |-> FALSE]
NamedConstant(cst) == [root |-> "NamedConstant", id |-> cst, port |-> PLACEHOLDER, is_input |-> FALSE]
\* WireReferenceRoot::SubModulePort(PortInfo{submodule_decl, port, is_input})
SubModulePort(submodule_decl, port, is_input) ==
    [root |-> "SubModulePort", id |-> submodule_decl, port |-> port, is_input |-> is_input]
\* WireReference{root, path}; a path element is ArrayAccess{idx}
WireReference(root, path) == [root |-> root, path |-> path]
\* WireReference::simple_port
simple_port(submodule_decl, port, is_input) ==
    WireReference(SubModulePort(submodule_decl, port, is_input), <<>>)

\* WireSource
WireRef(wr) == [src |-> "WireRef", ref |-> <<wr>>, op |-> "", left |-> PLACEHOLDER, right |-> PLACEHOLDER, value |-> 0]
UnaryOp(op, right) == [src |-> "UnaryOp", ref |-> <<>>, op |-> op, left |-> PLACEHOLDER, right |-> right, value |-> 0]
BinaryOp(op, left, right) == [src |-> "BinaryOp", ref |-> <<>>, op |-> op, left |-> left, right |-> right, value |-> 0]
Constant(v) == [src |-> "Constant", ref |-> <<>>, op |-> "", left |-> PLACEHOLDER, right |-> PLACEHOLDER, value |-> v]
\* WireSource::new_error()
new_error == [src |-> "Error", ref |-> <<>>, op |-> "", left |-> PLACEHOLDER, right |-> PLACEHOLDER, value |-> 0]

\* WrittenType
Named(typ_id) == [t |-> "Named", id |-> typ_id, elem |-> <<>>]
TypeError == [t |-> "Error", id |-> PLACEHOLDER, elem |-> <<>>]
ArrayType(elem, size_wire) == [t |-> "Array", id |-> size_wire, elem |-> <<elem>>]

\* WriteModifiers
Connection(num_regs) == [wm |-> "Connection", num_regs |-> num_regs]
Initial == [wm |-> "Initial", num_regs |-> 0]

\* Instruction variants; typ is "unset" (FullType::new_unset) until typechecking
WireInstr(source) == [tag |-> "Wire", typ |-> "unset", source |-> source]
DeclarationInstr(typ_expr, read_only, not_written, is_input_port, identifier_type, name, name_span, latency) ==
    [tag |-> "Declaration", typ |-> "unset", typ_expr |-> typ_expr, read_only |-> read_only,
     declaration_itself_is_not_written_to |-> not_written, is_input_port |-> is_input_port,
     identifier_type |-> identifier_type, name |-> name, name_span |-> name_span,
     latency_specifier |-> latency]
SubModuleInstr(module_uuid, name) == [tag |-> "SubModule", module_uuid |-> module_uuid, name |-> name]
WriteInstr(from, to, write_modifiers) ==
    [tag |-> "Write", from |-> from, to |-> to, write_modifiers |-> write_modifiers]
IfStatementInstr(condition, then_start, then_end_else_start, else_end) ==
    [tag |-> "IfStatement", condition |-> condition, then_start |-> then_start,
     then_end_else_start |-> then_end_else_start, else_end |-> else_end]
ForStatementInstr(loop_var_decl, start, end, loop_body) ==
    [tag |-> "ForStatement", loop_var_decl |-> loop_var_decl, start |-> start, end |-> end,
     loop_body |-> loop_body]
\* ModuleInterfaceReference{submodule_decl, submodule_interface}
ModuleInterfaceReference(submodule_decl, submodule_interface) ==
    [submodule_decl |-> submodule_decl, submodule_interface |-> submodule_interface]
FuncCallInstr(interface_reference, arguments, func_call_inputs, func_call_outputs) ==
    [tag |-> "FuncCall", interface_reference |-> interface_reference, arguments |-> arguments,
     func_call_inputs |-> func_call_inputs, func_call_outputs |-> func_call_outputs]

\* Port and Interface, created by Initialization
Port(name, name_span, is_input, interface) ==
    [name |-> name, name_span |-> name_span, is_input |-> is_input, interface |-> interface,
     declaration_instruction |-> PLACEHOLDER]
InterfaceRec(name, func_call_inputs, func_call_outputs) ==
    [name |-> name, func_call_inputs |-> func_call_inputs, func_call_outputs |-> func_call_outputs]

\* UUIDRange: half-open <<start, end>>
RangeLen(r) == r[2] - r[1]

\* the instruction with ID id of an instruction list
At(instructions, id) == instructions[id + 1]

(***************************************************************************)
(* The flattening context.  A context c carries the state the methods of   *)
(* FlatteningContext mutate (working_on.instructions, working_on.ports,    *)
(* errors, ports_to_visit, local_variable_context), the panic that unwinds *)
(* the pass ("" while there is none) and, in ret, the value the method     *)
(* returns.                                                                *)
(***************************************************************************)
Panicked(c) == c.panic # ""
Ret(c, v) == [c EXCEPT !.ret = v]
\* panic!, unreachable!, todo!, a failed assert! or unwrap()
panic(c, why) == [c EXCEPT !.panic = why]
\* ErrorCollector::error(span, msg), with .info_obj(..) of an instruction when info is an ID
error_info(c, msg, info) == [c EXCEPT !.errors = Append(@, [level |-> "error", msg |-> msg, info |-> info])]
error(c, msg) == error_info(c, msg, PLACEHOLDER)
warn(c, msg) == [c EXCEPT !.errors = Append(@, [level |-> "warning", msg |-> msg, info |-> PLACEHOLDER])]
\* FlatAlloc::alloc: the new ID is the length before the push
alloc(c, instr) == [c EXCEPT !.instructions = Append(@, instr), !.ret = Len(c.instructions)]
\* FlatAlloc::get_next_alloc_id
get_next_alloc_id(c) == Len(c.instructions)

\* LocalVariableContext: the locals in declaration order and where the current frame starts
new_initial == [locals |-> <<>>, current_frame_starts_at |-> 0]
\* new_frame() -> the previous frame start
new_frame(c) ==
    [c EXCEPT !.lvc.current_frame_starts_at = Len(c.lvc.locals),
              !.ret = c.lvc.current_frame_starts_at]
pop_frame(c, prev) ==
    [c EXCEPT !.lvc = [locals |-> SubSeq(c.lvc.locals, 1, c.lvc.current_frame_starts_at),
                       current_frame_starts_at |-> prev]]
LastIndexOf(locals, from, name) ==
    LET found == {i \in (from + 1)..Len(locals) : locals[i].name = name}
    IN  IF found = {} THEN 0 ELSE CHOOSE i \in found : \A j \in found : j <= i
\* get_declaration_for(name) -> Option<FlatID>: innermost declaration of any frame
get_declaration_for(lvc, name) ==
    LET i == LastIndexOf(lvc.locals, 0, name)
    IN  IF i = 0 THEN <<>> ELSE <<lvc.locals[i].id>>
\* add_declaration(name, id) -> Result<(), FlatID>: ret is <<>> for Ok, <<conflict>> for Err
add_declaration(c, name, id) ==
    LET i == LastIndexOf(c.lvc.locals, c.lvc.current_frame_starts_at, name)
    IN  IF i # 0 THEN Ret(c, <<c.lvc.locals[i].id>>)
        ELSE [c EXCEPT !.lvc.locals = Append(@, [name |-> name, id |-> id]), !.ret = <<>>]

\* Global names: the built-in types and constants, and the modules of the linker
BuiltinTypes == <<"int", "bool">>
BuiltinConstants == <<"true", "false">>
IndexIn(seq, x) == CHOOSE i \in 1..Len(seq) : seq[i] = x
IsIn(seq, x) == \E i \in 1..Len(seq) : seq[i] = x
ResolvedName(elem, id) == [name_elem |-> elem, id |-> id]
\* NameResolver::resolve_global: a name bound to no or to several entities resolves to
\* None, and that is reported
resolve_global(c, name) ==
    LET mds == {b[2] : b \in {x \in c.global_namespace : x[1] = name}}
    IN  IF IsIn(BuiltinTypes, name) THEN Ret(c, ResolvedName("Type", IndexIn(BuiltinTypes, name) - 1))
        ELSE IF IsIn(BuiltinConstants, name) THEN Ret(c, ResolvedName("Constant", IndexIn(BuiltinConstants, name) - 1))
        ELSE IF Cardinality(mds) = 1 THEN Ret(c, ResolvedName("Module", CHOOSE m \in mds : TRUE))
        ELSE Ret(error(c, IF mds = {} THEN "No Global of the name" ELSE "Ambiguous global"),
                 ResolvedName("None", PLACEHOLDER))
\* ResolvedName::not_expected_global_error: a missing global was already reported
not_expected_global_error(c, resolved, expected) ==
    IF resolved.name_elem = "None" THEN c ELSE error(c, "Not the expected kind of global")

\* self.modules[module_uuid]: a module of the linker, read-only during flattening
Md(c, module_uuid) == c.modules[module_uuid + 1]
\* Module::get_port_or_interface_by_name -> Option<PortOrInterface>, reports a missing name
get_port_or_interface_by_name(c, md, name) ==
    LET ps == {i \in 1..Len(md.ports) : md.ports[i].name = name}
        is == {i \in 1..Len(md.interfaces) : md.interfaces[i].name = name}
    IN  IF ps # {} THEN Ret(c, <<[what |-> "Port", id |-> (CHOOSE i \in ps : \A j \in ps : i <= j) - 1]>>)
        ELSE IF is # {} THEN Ret(c, <<[what |-> "Interface", id |-> (CHOOSE i \in is : \A j \in is : i <= j) - 1]>>)
        ELSE Ret(error(c, "There is no port or interface of this name"), <<>>)

\* PartialWireReference
PWError == [p |-> "Error", id |-> PLACEHOLDER, interface |-> PLACEHOLDER, wr |-> <<>>]
GlobalModuleName(module_uuid) == [p |-> "GlobalModuleName", id |-> module_uuid, interface |-> PLACEHOLDER, wr |-> <<>>]
ModuleButNoPort(submodule_decl) == [p |-> "ModuleButNoPort", id |-> submodule_decl, interface |-> PLACEHOLDER, wr |-> <<>>]
ModuleWithInterface(submodule_decl, interface) ==
    [p |-> "ModuleWithInterface", id |-> submodule_decl, interface |-> interface, wr |-> <<>>]
PWWireReference(wr) == [p |-> "WireReference", id |-> PLACEHOLDER, interface |-> PLACEHOLDER, wr |-> <<wr>>]

\* PartialWireReference::expect_wireref -> Option<WireReference>
expect_wireref(c, pwr) ==
    CASE pwr.p = "Error" -> Ret(c, <<>>)
      [] pwr.p = "ModuleButNoPort" ->
            Ret(error(c, "cannot operate on modules directly. Should use ports instead"), <<>>)
      [] pwr.p = "GlobalModuleName" ->
            Ret(error(c, "Expected a Wire Reference, but found module instead"), <<>>)
      [] pwr.p = "ModuleWithInterface" ->
            Ret(error(c, "Expected a port, but found module interface instead"), <<>>)
      [] pwr.p = "WireReference" -> Ret(c, pwr.wr)

\* alloc_error
alloc_error(c) == alloc(c, WireInstr(new_error))

\* get_interface_reference -> the Interface of the submodule's module
get_interface_reference(c, interface_reference) ==
    LET submodule == At(c.instructions, interface_reference.submodule_decl)
    IN  Md(c, submodule.module_uuid).interfaces[interface_reference.submodule_interface + 1]

(***************************************************************************)
(* Expressions and wire references (methods of FlatteningContext).         *)
(***************************************************************************)
RECURSIVE flatten_expr(_, _)
RECURSIVE flatten_wire_reference(_, _)
RECURSIVE flatten_func_call(_, _)
RECURSIVE flatten_expr_list(_, _, _)
RECURSIVE pad_arguments(_, _, _)

\* resolve_identifier -> LocalOrGlobal: the local context first, then the global names
resolve_identifier(c, name) ==
    LET local == get_declaration_for(c.lvc, name)
    IN  IF local # <<>> THEN Ret(c, [lg |-> "Local", id |-> local[1], global |-> <<>>])
        ELSE LET c1 == resolve_global(c, name)
             IN  Ret(c1, [lg |-> "Global", id |-> PLACEHOLDER, global |-> <<c1.ret>>])

\* flatten_array_bracket -> the index wire
flatten_array_bracket(c, node) == flatten_expr(c, node)

\* cursor.collect_list(.., |cursor| self.flatten_expr(cursor))
flatten_expr_list(c, nodes, acc) ==
    LET then_rest(c1) ==
            IF Panicked(c1) THEN c1 ELSE flatten_expr_list(c1, Tail(nodes), Append(acc, c1.ret))
    IN  IF nodes = <<>> THEN Ret(c, acc) ELSE then_rest(flatten_expr(c, Head(nodes)))

\* too few arguments left as they are
pad_arguments_none(c, arguments, expected_arg_count) == Ret(c, arguments)
\* while arguments.len() < expected_arg_count {arguments.push(self.alloc_error(..))}
pad_arguments(c, arguments, expected_arg_count) ==
    LET then_rest(c1) == pad_arguments(c1, Append(arguments, c1.ret), expected_arg_count)
    IN  IF Len(arguments) < expected_arg_count THEN then_rest(alloc_error(c))
        ELSE Ret(c, arguments)

\* get_or_alloc_module -> Option<ModuleInterfaceReference>
get_or_alloc_module(c, node) ==
    LET then_submodule(c2) == Ret(c2, <<ModuleInterfaceReference(c2.ret, MAIN_INTERFACE_ID)>>)
        then_match(c1) ==
            IF Panicked(c1) THEN c1
            ELSE CASE c1.ret.p = "Error" -> Ret(c1, <<>>)
                   [] c1.ret.p = "GlobalModuleName" ->
                         then_submodule(alloc(c1, SubModuleInstr(c1.ret.id, <<>>)))
                   [] c1.ret.p = "ModuleButNoPort" ->
                         Ret(c1, <<ModuleInterfaceReference(c1.ret.id, MAIN_INTERFACE_ID)>>)
                   [] c1.ret.p = "ModuleWithInterface" ->
                         Ret(c1, <<ModuleInterfaceReference(c1.ret.id, c1.ret.interface)>>)
                   [] c1.ret.p = "WireReference" ->
                         Ret(error(c1, "Function call syntax is only possible on modules or interfaces of modules"), <<>>)
    IN  then_match(flatten_wire_reference(c, node))

\* flatten_func_call, once get_or_alloc_module returned c1.ret: the arguments, their
\* count against the inputs of the interface, the FuncCall instruction
flatten_func_call_arguments(c1, node) ==
    LET then_some(c4) == Ret(c4, <<c4.ret>>)
        then_alloc(c3, interface_reference, interface) ==
            then_some(alloc(c3, FuncCallInstr(interface_reference, c3.ret,
                                              interface.func_call_inputs, interface.func_call_outputs)))
        then_count(c2, interface_reference, interface, arguments, expected_arg_count) ==
            then_alloc(IF Len(arguments) = expected_arg_count THEN Ret(c2, arguments)
                       ELSE IF Len(arguments) > expected_arg_count
                       THEN Ret(error(c2, "Excess argument"), SubSeq(arguments, 1, expected_arg_count))
                       ELSE pad_arguments(error(c2, "Too few arguments"), arguments, expected_arg_count),
                       interface_reference, interface)
        then_interface(c2, interface_reference) ==
            IF Panicked(c2) THEN c2
            ELSE IF interface_reference = <<>> THEN Ret(c2, <<>>)
            ELSE then_count(c2, interface_reference[1],
                            get_interface_reference(c2, interface_reference[1]), c2.ret,
                            RangeLen(get_interface_reference(c2, interface_reference[1]).func_call_inputs))
    IN  IF Panicked(c1) THEN c1
        ELSE then_interface(flatten_expr_list(c1, node.arguments, <<>>), c1.ret)

\* flatten_func_call -> Option<FlatID> of the FuncCall instruction
flatten_func_call(c, node) == flatten_func_call_arguments(get_or_alloc_module(c, node.name), node)

\* flatten_expr with an error wire for every call that has not exactly one output
flatten_expr_one_output_or_error(c, node) ==
    LET \* the Wire is allocated once the operands are, cs.ret being the WireSource
        then_wire(cs) == IF Panicked(cs) THEN cs ELSE alloc(cs, WireInstr(cs.ret))
        then_unary(c1) == IF Panicked(c1) THEN c1 ELSE Ret(c1, UnaryOp(node.operator, c1.ret))
        then_binary(c2, left) ==
            IF Panicked(c2) THEN c2 ELSE Ret(c2, BinaryOp(node.operator, left, c2.ret))
        then_right(c1) ==
            IF Panicked(c1) THEN c1 ELSE then_binary(flatten_expr(c1, node.right), c1.ret)
        then_output(c1, fc, interface) ==
            IF RangeLen(interface.func_call_outputs) = 1
            THEN Ret(c1,
                     WireRef(simple_port(fc.interface_reference.submodule_decl,
                                         interface.func_call_outputs[1], FALSE)))
            ELSE Ret(error(c1, "A function called in this context may only return one result"),
                     new_error)
        then_call(c1) ==
            IF Panicked(c1) THEN c1
            ELSE IF c1.ret = <<>> THEN Ret(c1, new_error)
            ELSE then_output(c1, At(c1.instructions, c1.ret[1]),
                             get_interface_reference(c1, At(c1.instructions, c1.ret[1]).interface_reference))
        then_expected(c2) ==
            IF c2.ret # <<>> THEN Ret(c2, WireRef(c2.ret[1])) ELSE Ret(c2, new_error)
        then_reference(c1) ==
            IF Panicked(c1) THEN c1 ELSE then_expected(expect_wireref(c1, c1.ret))
    IN  IF node.kind = "parenthesis_expression" THEN flatten_expr(c, node.content)
        ELSE then_wire(
                 CASE node.kind = "number" -> Ret(c, Constant(node.val))
                   [] node.kind = "unary_op" -> then_unary(flatten_expr(c, node.right))
                   [] node.kind = "binary_op" -> then_right(flatten_expr(c, node.left))
                   [] node.kind = "func_call" -> then_call(flatten_func_call(c, node))
                   [] OTHER -> then_reference(flatten_wire_reference(c, node)))

\* flatten_expr -> FlatID of the Wire of the expression
flatten_expr(c, node) ==
    LET \* the Wire is allocated once the operands are, cs.ret being the WireSource
        then_wire(cs) == IF Panicked(cs) THEN cs ELSE alloc(cs, WireInstr(cs.ret))
        then_unary(c1) == IF Panicked(c1) THEN c1 ELSE Ret(c1, UnaryOp(node.operator, c1.ret))
        then_binary(c2, left) ==
            IF Panicked(c2) THEN c2 ELSE Ret(c2, BinaryOp(node.operator, left, c2.ret))
        then_right(c1) ==
            IF Panicked(c1) THEN c1 ELSE then_binary(flatten_expr(c1, node.right), c1.ret)
        then_output(c1, fc, interface) ==
            IF RangeLen(interface.func_call_outputs) >= 1
            THEN Ret(IF RangeLen(interface.func_call_outputs) # 1
                     THEN error(c1, "A function called in this context may only return one result")
                     ELSE c1,
                     WireRef(simple_port(fc.interface_reference.submodule_decl,
                                         interface.func_call_outputs[1], FALSE)))
            ELSE Ret(error(c1, "A function called in this context may only return one result"),
                     new_error)
        then_call(c1) ==
            IF Panicked(c1) THEN c1
            ELSE IF c1.ret = <<>> THEN Ret(c1, new_error)
            ELSE then_output(c1, At(c1.instructions, c1.ret[1]),
                             get_interface_reference(c1, At(c1.instructions, c1.ret[1]).interface_reference))
        then_expected(c2) ==
            IF c2.ret # <<>> THEN Ret(c2, WireRef(c2.ret[1])) ELSE Ret(c2, new_error)
        then_reference(c1) ==
            IF Panicked(c1) THEN c1 ELSE then_expected(expect_wireref(c1, c1.ret))
    IN  IF node.kind = "parenthesis_expression" THEN flatten_expr(c, node.content)
        ELSE then_wire(
                 CASE node.kind = "number" -> Ret(c, Constant(node.val))
                   [] node.kind = "unary_op" -> then_unary(flatten_expr(c, node.right))
                   [] node.kind = "binary_op" -> then_right(flatten_expr(c, node.left))
                   [] node.kind = "func_call" -> then_call(flatten_func_call(c, node))
                   [] OTHER -> then_reference(flatten_wire_reference(c, node)))

\* flatten_wire_reference of an array_op, once `arr` is flattened to c1.ret: the index,
\* then the path element
flatten_wire_reference_arr_idx(c1, node) ==
    LET then_index(c2, flattened_arr_expr) ==
            IF Panicked(c2) THEN c2
            ELSE (CASE flattened_arr_expr.p \in {"ModuleButNoPort", "GlobalModuleName", "ModuleWithInterface"} ->
                          panic(c2, "todo: Module Arrays")
                    [] flattened_arr_expr.p = "Error" -> Ret(c2, PWError)
                    [] flattened_arr_expr.p = "WireReference" ->
                          Ret(c2, PWWireReference(WireReference(flattened_arr_expr.wr[1].root,
                                                                Append(flattened_arr_expr.wr[1].path, c2.ret)))))
    IN  IF Panicked(c1) THEN c1 ELSE then_index(flatten_array_bracket(c1, node.arr_idx), c1.ret)

\* flatten_wire_reference -> PartialWireReference
flatten_wire_reference(c, node) ==
    LET then_identifier(c1, r) ==
            IF r.lg = "Local"
            THEN IF At(c1.instructions, r.id).tag = "SubModule"
                 THEN Ret(c1, ModuleButNoPort(r.id))
                 ELSE IF At(c1.instructions, r.id).tag = "Declaration"
                 THEN Ret(c1, PWWireReference(WireReference(LocalDecl(r.id), <<>>)))
                 ELSE panic(c1, "unreachable")
            ELSE (CASE r.global[1].name_elem = "Constant" ->
                          Ret(c1, PWWireReference(WireReference(NamedConstant(r.global[1].id), <<>>)))
                    [] r.global[1].name_elem \in {"Type", "None"} ->
                          Ret(not_expected_global_error(c1, r.global[1], "named wire: local or constant"), PWError)
                    [] r.global[1].name_elem = "Module" -> Ret(c1, GlobalModuleName(r.global[1].id)))
        then_port(c2, submodule_decl, submod) ==
            IF c2.ret = <<>> THEN Ret(c2, PWError)
            ELSE IF c2.ret[1].what = "Port"
            THEN Ret(c2, PWWireReference(WireReference(
                     SubModulePort(submodule_decl, c2.ret[1].id,
                                   submod.ports[c2.ret[1].id + 1].is_input), <<>>)))
            ELSE Ret(c2, ModuleWithInterface(submodule_decl, c2.ret[1].id))
        then_field(c1, flattened_arr_expr) ==
            IF Panicked(c1) THEN c1
            ELSE (CASE flattened_arr_expr.p = "Error" -> Ret(c1, PWError)
                    [] flattened_arr_expr.p = "GlobalModuleName" ->
                          Ret(error(c1, "Ports or interfaces can only be accessed on modules that have been explicitly declared"), PWError)
                    [] flattened_arr_expr.p = "ModuleWithInterface" ->
                          Ret(error(c1, "Omit the interface when accessing a port"), PWError)
                    [] flattened_arr_expr.p = "ModuleButNoPort" ->
                          then_port(get_port_or_interface_by_name(
                                        c1, Md(c1, At(c1.instructions, flattened_arr_expr.id).module_uuid),
                                        node.name),
                                    flattened_arr_expr.id,
                                    Md(c1, At(c1.instructions, flattened_arr_expr.id).module_uuid))
                    [] flattened_arr_expr.p = "WireReference" ->
                          \* println!("TODO: Struct fields"): nothing is recorded
                          Ret(c1, PWError))
        then_left(c1) == then_field(c1, c1.ret)
        then_resolved(c1) == then_identifier(c1, c1.ret)
    IN  CASE node.kind = "global_identifier" -> then_resolved(resolve_identifier(c, node.name))
          [] node.kind = "array_op" ->
                flatten_wire_reference_arr_idx(flatten_wire_reference(c, node.arr), node)
          [] node.kind = "field_access" -> then_left(flatten_wire_reference(c, node.left))
          [] node.kind = "number" -> Ret(error(c, "A constant is not a wire reference"), PWError)
          [] node.kind \in {"unary_op", "binary_op"} ->
                Ret(error(c, "The result of an operator is not a wire reference"), PWError)
          [] node.kind = "func_call" -> Ret(error(c, "A submodule call is not a wire reference"), PWError)
          [] node.kind = "parenthesis_expression" ->
                Ret(error(c, "Parentheses are not allowed within a wire reference"), PWError)
          [] OTHER -> panic(c, "could_not_match")

(***************************************************************************)
(* Types and declarations.                                                 *)
(***************************************************************************)
RECURSIVE flatten_type(_, _)

\* flatten_array_type, once `arr` is flattened to the element type c1.ret: the size wire
flatten_array_type_arr_idx(c1, node) ==
    LET then_array(c2, array_element_type) ==
            IF Panicked(c2) THEN c2 ELSE Ret(c2, ArrayType(array_element_type, c2.ret))
    IN  IF Panicked(c1) THEN c1 ELSE then_array(flatten_array_bracket(c1, node.arr_idx), c1.ret)

\* flatten_array_type -> WrittenType::Array
flatten_array_type(c, node) == flatten_array_type_arr_idx(flatten_type(c, node.arr), node)

\* flatten_type -> WrittenType
flatten_type(c, node) ==
    LET then_resolved(c1) ==
            IF c1.ret.name_elem = "Type" THEN Ret(c1, Named(c1.ret.id))
            ELSE Ret(not_expected_global_error(c1, c1.ret, "Type"), TypeError)
    IN  IF node.kind = "global_identifier" THEN then_resolved(resolve_global(c, node.name))
        ELSE IF node.kind = "array_type" THEN flatten_array_type(c, node)
        ELSE panic(c, "could_not_match")

\* ModuleOrWrittenType
MWWrittenType(typ) == [mt |-> "WrittenType", typ |-> <<typ>>, module |-> PLACEHOLDER]
MWModule(module_uuid) == [mt |-> "Module", typ |-> <<>>, module |-> module_uuid]

\* flatten_module_or_type::<ALLOW_MODULES> -> ModuleOrWrittenType
flatten_module_or_type(c, ALLOW_MODULES, node) ==
    LET then_resolved(c1, found_global) ==
            CASE found_global.name_elem = "Type" -> Ret(c1, MWWrittenType(Named(found_global.id)))
              [] found_global.name_elem = "Module" /\ ALLOW_MODULES -> Ret(c1, MWModule(found_global.id))
              [] found_global.name_elem = "None" -> Ret(c1, MWWrittenType(TypeError))
              [] OTHER -> Ret(not_expected_global_error(c1, found_global, "Type or Module"),
                              MWWrittenType(TypeError))
        then_global(c1) == then_resolved(c1, c1.ret)
        then_array(c1) == IF Panicked(c1) THEN c1 ELSE Ret(c1, MWWrittenType(c1.ret))
    IN  IF node.kind = "global_identifier" THEN then_global(resolve_global(c, node.name))
        ELSE IF node.kind = "array_type" THEN then_array(flatten_array_type(c, node))
        ELSE panic(c, "could_not_match")

\* alloc_declaration -> FlatID; a clash in the current frame is reported with the earlier
\* declaration, which is unwrapped as a wire declaration
alloc_declaration(c, name, new_instr) ==
    LET then_added(c2, inst_id) ==
            IF c2.ret = <<>> THEN Ret(c2, inst_id)
            ELSE IF At(c2.instructions, c2.ret[1]).tag # "Declaration"
            THEN panic(c2, "unwrap_wire_declaration on not a WireDeclaration")
            ELSE Ret(error_info(c2, "This declaration conflicts with a previous declaration in the same scope", c2.ret[1]),
                     inst_id)
        then_add(c1) == then_added(add_declaration(c1, name, c1.ret), c1.ret)
    IN  then_add(alloc(c, new_instr))

\* a port link that writes the declaration_instruction of the input ports only
link_port_inputs_only(c, name_span, decl_id) ==
    IF c.ports_to_visit[1] >= c.ports_to_visit[2]
    THEN panic(c, "ports_to_visit.next().unwrap() on None")
    ELSE LET this_port_id == c.ports_to_visit[1]
         IN  IF c.ports[this_port_id + 1].name_span # name_span
             THEN panic([c EXCEPT !.ports_to_visit[1] = @ + 1], "assert_eq!(port.name_span, name_span)")
             ELSE IF c.ports[this_port_id + 1].is_input
             THEN [c EXCEPT !.ports_to_visit[1] = @ + 1,
                            !.ports[this_port_id + 1].declaration_instruction = decl_id,
                            !.written = Append(@, this_port_id)]
             ELSE [c EXCEPT !.ports_to_visit[1] = @ + 1]
\* the part of flatten_declaration that fulfils the next pending port
link_port(c, name_span, decl_id) ==
    IF c.ports_to_visit[1] >= c.ports_to_visit[2]
    THEN panic(c, "ports_to_visit.next().unwrap() on None")
    ELSE LET this_port_id == c.ports_to_visit[1]
         IN  IF c.ports[this_port_id + 1].name_span # name_span
             THEN panic([c EXCEPT !.ports_to_visit[1] = @ + 1], "assert_eq!(port.name_span, name_span)")
             ELSE [c EXCEPT !.ports_to_visit[1] = @ + 1,
                            !.ports[this_port_id + 1].declaration_instruction = decl_id,
                            !.written = Append(@, this_port_id)]

\* a modifier check whose `gen` arm tests `is_input_port == Some(true)` as the `state`
\* arm does: a generative output port is not reported
check_declaration_modifiers_inputs_only(c, declaration_context, declaration_modifiers, is_input_port) ==
    IF declaration_context = "ForLoopGenerative"
    THEN IF declaration_modifiers # ""
         THEN error(c, "Cannot add modifiers to the iterator of a for loop")
         ELSE c
    ELSE IF declaration_modifiers = "state" /\ is_input_port = <<TRUE>>
    THEN error(c, "Inputs cannot be decorated with 'state'")
    ELSE IF declaration_modifiers = "gen" /\ is_input_port = <<TRUE>>
    THEN error(c, "Cannot make an input or output generative")
    ELSE c
\* the diagnostics of the match that computes identifier_type in flatten_declaration
check_declaration_modifiers(c, declaration_context, declaration_modifiers, is_input_port) ==
    IF declaration_context = "ForLoopGenerative"
    THEN IF declaration_modifiers # ""
         THEN error(c, "Cannot add modifiers to the iterator of a for loop")
         ELSE c
    ELSE IF declaration_modifiers = "state" /\ is_input_port = <<TRUE>>
    THEN error(c, "Inputs cannot be decorated with 'state'")
    ELSE IF declaration_modifiers = "gen" /\ is_input_port # <<>>
    THEN error(c, "Cannot make an input or output generative")
    ELSE c

\* flatten_declaration, once the type is flattened to c_typ.ret: the latency specifier,
\* the instruction, the port link
flatten_declaration_latency_specifier(c_typ, read_only, not_written, is_input_port, identifier_type, node) ==
    LET \* the port is linked: the declaration's ID is returned
        then_linked(c_port, decl_id) == IF Panicked(c_port) THEN c_port ELSE Ret(c_port, decl_id)
        then_port(c_decl) ==
            IF Panicked(c_decl) THEN c_decl
            ELSE IF is_input_port # <<>>
            THEN then_linked(link_port(c_decl, node.name_span, c_decl.ret), c_decl.ret)
            ELSE c_decl
        \* parsing components done
        then_alloc(c_lat, typ_or_module_expr, span_latency_specifier) ==
            IF typ_or_module_expr.mt = "Module"
            THEN alloc_declaration(
                     IF span_latency_specifier # <<>>
                     THEN error(c_lat, "Cannot add latency specifier to module instances")
                     ELSE c_lat,
                     node.name, SubModuleInstr(typ_or_module_expr.module, <<node.name>>))
            ELSE then_port(alloc_declaration(
                               c_lat, node.name,
                               DeclarationInstr(typ_or_module_expr.typ[1], read_only, not_written,
                                                is_input_port, identifier_type, node.name,
                                                node.name_span, span_latency_specifier)))
        then_latency(c_lat, typ_or_module_expr) ==
            IF Panicked(c_lat) THEN c_lat
            ELSE then_alloc(c_lat, typ_or_module_expr,
                            IF node.latency_specifier = <<>> THEN <<>> ELSE <<c_lat.ret>>)
    IN  IF Panicked(c_typ) THEN c_typ
        ELSE then_latency(IF node.latency_specifier = <<>> THEN c_typ
                          ELSE flatten_expr(c_typ, node.latency_specifier[1]),
                          c_typ.ret)

\* flatten_declaration::<ALLOW_MODULES>(declaration_context, read_only,
\*     declaration_itself_is_not_written_to, cursor) -> FlatID
flatten_declaration(c, ALLOW_MODULES, declaration_context, read_only, not_written, node) ==
    LET io_kw == node.io_port_modifiers
        is_input_port == CASE declaration_context \in {"Input", "Output"} -> <<declaration_context = "Input">>
                           [] declaration_context = "ForLoopGenerative" -> <<>>
                           [] declaration_context = "PlainWire" ->
                                 IF io_kw = "" THEN <<>> ELSE <<io_kw = "input">>
        \* State or Generative
        declaration_modifiers == node.declaration_modifiers
        identifier_type == IF declaration_context = "ForLoopGenerative" THEN "Generative"
                           ELSE CASE declaration_modifiers = "state" -> "State"
                                  [] declaration_modifiers = "gen" -> "Generative"
                                  [] OTHER -> "Local"
        \* the context after is_input_port is computed: a redeclared IO keyword is reported
        c_io == IF declaration_context \in {"Input", "Output"} /\ io_kw # ""
                THEN error(c, "Cannot redeclare 'input' or 'output' on functional syntax IO")
                ELSE IF declaration_context = "ForLoopGenerative" /\ io_kw # ""
                THEN error(c, "Cannot declare 'input' or 'output' to the iterator of a for loop")
                ELSE c
    IN  IF declaration_context = "PlainWire" /\ io_kw \notin {"", "input", "output"}
        THEN panic(c, "could_not_match")
        ELSE IF declaration_context # "ForLoopGenerative" /\ declaration_modifiers \notin {"", "state", "gen"}
        THEN panic(c_io, "could_not_match")
        ELSE flatten_declaration_latency_specifier(
                 flatten_module_or_type(
                     check_declaration_modifiers(c_io, declaration_context, declaration_modifiers,
                                                 is_input_port),
                     ALLOW_MODULES, node.type),
                 read_only, not_written, is_input_port, identifier_type, node)

(***************************************************************************)
(* Statements.                                                             *)
(***************************************************************************)
Count(seq, x) == Cardinality({i \in 1..Len(seq) : seq[i] = x})

\* flatten_write_modifiers -> WriteModifiers
flatten_write_modifiers(c, write_modifiers) ==
    IF write_modifiers # <<>>
    THEN LET initial_count == Count(write_modifiers, "initial")
             reg_count == Count(write_modifiers, "reg")
         IN  IF initial_count + reg_count # Len(write_modifiers) THEN panic(c, "unreachable")
             ELSE IF initial_count = 0 THEN Ret(c, Connection(reg_count))
             ELSE IF initial_count = 1 /\ reg_count = 0 THEN Ret(c, Initial)
             ELSE panic(c, "unreachable")
    ELSE Ret(c, Connection(0))

\* a target of an assignment: Option<(WireReference, WriteModifiers)>
Target(to, write_modifiers) == [to |-> to, write_modifiers |-> write_modifiers]

\* the closure of flatten_assignment_left_side for one assign_to
flatten_assign_to(c, item) ==
    LET c1 == flatten_write_modifiers(c, item.write_modifiers)
        then_root(c2) ==
            IF Panicked(c2) THEN c2
            ELSE IF At(c2.instructions, c2.ret).tag # "Declaration"
            THEN panic(c2, "unwrap_wire_declaration on not a WireDeclaration")
            ELSE Ret(c2, <<Target(WireReference(LocalDecl(c2.ret), <<>>), c1.ret)>>)
        then_expected(c3) ==
            IF c3.ret # <<>> THEN Ret(c3, <<Target(c3.ret[1], c1.ret)>>)
            ELSE Ret(c3, <<>>)
        then_reference(c2) ==
            IF Panicked(c2) THEN c2 ELSE then_expected(expect_wireref(c2, c2.ret))
    IN  IF Panicked(c1) THEN c1
        ELSE IF item.expr_or_decl.kind = "declaration"
        THEN then_root(flatten_declaration(c1, FALSE, "PlainWire", FALSE, TRUE, item.expr_or_decl))
        ELSE then_reference(flatten_wire_reference(c1, item.expr_or_decl))

\* flatten_assignment_left_side -> Vec<Option<(WireReference, WriteModifiers)>>, the
\* targets collected so far being acc
RECURSIVE flatten_assignment_left_side(_, _, _)
flatten_assignment_left_side(c, items, acc) ==
    LET then_rest(c1) ==
            IF Panicked(c1) THEN c1
            ELSE flatten_assignment_left_side(c1, Tail(items), Append(acc, c1.ret))
    IN  IF items = <<>> THEN Ret(c, acc) ELSE then_rest(flatten_assign_to(c, Head(items)))

\* `for port in outputs`: every output takes the next target, and a target that is a
\* wire reference gets a wire on the port and a Write
RECURSIVE write_outputs(_, _, _, _, _)
write_outputs(c, submodule_decl, port, outputs_end, to_iter) ==
    LET then_write(c1) ==
            alloc(c1, WriteInstr(c1.ret, Head(to_iter)[1].to, Head(to_iter)[1].write_modifiers))
    IN  IF port >= outputs_end THEN Ret(c, to_iter)
        ELSE write_outputs(
                 IF to_iter # <<>> /\ Head(to_iter) # <<>>
                 THEN then_write(alloc(c, WireInstr(WireRef(simple_port(submodule_decl, port, FALSE)))))
                 ELSE c,
                 submodule_decl, port + 1, outputs_end,
                 IF to_iter = <<>> THEN <<>> ELSE Tail(to_iter))

\* leftover targets that are not written
write_leftovers_none(c, to_iter) == c
\* `for leftover_to in to_iter`: the targets without an output are written from an error wire
RECURSIVE write_leftovers(_, _)
write_leftovers(c, to_iter) ==
    LET then_write(c1) ==
            alloc(c1, WriteInstr(c1.ret, Head(to_iter)[1].to, Head(to_iter)[1].write_modifiers))
    IN  IF to_iter = <<>> THEN c
        ELSE write_leftovers(IF Head(to_iter) # <<>>
                             THEN then_write(alloc(c, WireInstr(new_error)))
                             ELSE c,
                             Tail(to_iter))

\* flatten_assign_function_call(to, cursor)
flatten_assign_function_call(c, to, node) ==
    LET then_leftovers(c3) == write_leftovers(c3, c3.ret)
        then_outputs(c1, submodule_decl, outputs) ==
            then_leftovers(write_outputs(
                IF Len(to) = RangeLen(outputs) THEN c1
                ELSE IF Len(to) > RangeLen(outputs)
                THEN error(c1, "Excess output targets")
                ELSE error(c1, "Too few output targets"),
                submodule_decl, outputs[1], outputs[2], to))
        then_call(c1) ==
            IF Panicked(c1) THEN c1
            ELSE IF c1.ret # <<>>
            THEN then_outputs(
                     c1, At(c1.instructions, c1.ret[1]).interface_reference.submodule_decl,
                     get_interface_reference(
                         c1, At(c1.instructions, c1.ret[1]).interface_reference).func_call_outputs)
            ELSE write_leftovers(c1, to)
    IN  then_call(flatten_func_call(c, node))

\* the closure of flatten_standalone_decls for one assign_to
flatten_standalone_decl(c, item, is_first_item) ==
    LET c1 == IF ~is_first_item
              THEN warn(c, "Standalone declarations and expressions should be on their own line")
              ELSE c
        c2 == IF item.write_modifiers # <<>>
              THEN error(c1, "No write modifiers are allowed on non-assigned to declarations or expressions")
              ELSE c1
    IN  IF item.expr_or_decl.kind = "declaration"
        THEN flatten_declaration(c2, TRUE, "PlainWire", FALSE, TRUE, item.expr_or_decl)
        ELSE IF item.expr_or_decl.kind = "func_call"
        THEN flatten_assign_function_call(c2, <<>>, item.expr_or_decl)
        ELSE flatten_expr(warn(c2, "The result of this operation is not used"), item.expr_or_decl)

\* flatten_standalone_decls, from the i-th item on
RECURSIVE flatten_standalone_decls(_, _, _)
flatten_standalone_decls(c, items, i) ==
    LET then_rest(c1) == IF Panicked(c1) THEN c1 ELSE flatten_standalone_decls(c1, items, i + 1)
    IN  IF i > Len(items) THEN c ELSE then_rest(flatten_standalone_decl(c, items[i], i = 1))

\* flatten_declaration_list(declaration_context, read_only, cursor); nothing is flattened
\* once a declaration panicked
RECURSIVE flatten_declaration_list(_, _, _, _)
flatten_declaration_list(c, declaration_context, read_only, decls) ==
    IF Panicked(c) \/ decls = <<>> THEN c
    ELSE flatten_declaration_list(
             flatten_declaration(c, FALSE, declaration_context, read_only, TRUE, Head(decls)),
             declaration_context, read_only, Tail(decls))

\* flatten_interface_ports: the inputs are read_only, the outputs are not
flatten_interface_ports(c, node) ==
    flatten_declaration_list(flatten_declaration_list(c, "Input", TRUE, node.inputs),
                             "Output", FALSE, node.outputs)

\* the statement `assign_left = assign_value` that flattens the value and allocates no
\* Write
flatten_decl_assign_statement_assign_value_no_write(c1, node) ==
    IF Panicked(c1) THEN c1
    ELSE IF node.assign_value.kind = "func_call"
    THEN flatten_assign_function_call(c1, c1.ret, node.assign_value)
    ELSE flatten_expr(c1, node.assign_value)

\* the statement `assign_left = assign_value`, once the left side is flattened to c1.ret
flatten_decl_assign_statement_assign_value(c1, node) ==
    LET then_write(c3, read_side, to) ==
            IF to # <<>> /\ Head(to) # <<>>
            THEN alloc(c3, WriteInstr(read_side, Head(to)[1].to, Head(to)[1].write_modifiers))
            ELSE c3
        then_read_side(c2, to) ==
            IF Panicked(c2) THEN c2
            ELSE then_write(IF Len(to) # 1
                            THEN error(c2, "Non-function assignments must output exactly 1 output")
                            ELSE c2,
                            c2.ret, to)
    IN  IF Panicked(c1) THEN c1
        ELSE IF node.assign_value.kind = "func_call"
        THEN flatten_assign_function_call(c1, c1.ret, node.assign_value)
        ELSE then_read_side(flatten_expr(c1, node.assign_value), c1.ret)

\* the statement `assign_left = assign_value` of flatten_code_keep_context
flatten_decl_assign_statement(c, node) ==
    flatten_decl_assign_statement_assign_value(
        flatten_assignment_left_side(c, node.assign_left, <<>>), node)

RECURSIVE flatten_code(_, _)
RECURSIVE flatten_code_keep_context(_, _)
RECURSIVE flatten_if_statement(_, _)

\* an if statement whose bounds are never written back: they stay PLACEHOLDER
flatten_if_statement_then_bounds_unset(c4, if_id, condition, then_start, then_end_else_start) == c4
\* a write-back that ends the else range where it starts
flatten_if_statement_then_bounds_no_else(c4, if_id, condition, then_start, then_end_else_start) ==
    IF Panicked(c4) THEN c4
    ELSE [c4 EXCEPT !.instructions[if_id + 1] =
             IfStatementInstr(condition, then_start, then_end_else_start, then_end_else_start)]
\* the write-back of the bounds of an if statement, once both blocks are flattened
flatten_if_statement_then_bounds(c4, if_id, condition, then_start, then_end_else_start) ==
    IF Panicked(c4) THEN c4
    ELSE [c4 EXCEPT !.instructions[if_id + 1] =
             IfStatementInstr(condition, then_start, then_end_else_start, get_next_alloc_id(c4))]
\* flatten_if_statement: the bounds are PLACEHOLDER until the blocks are flattened
flatten_if_statement(c, node) ==
    LET then_else(c3, if_id, condition, then_start) ==
            IF Panicked(c3) THEN c3
            ELSE flatten_if_statement_then_bounds(
                     IF node.else_block = <<>> THEN c3
                     ELSE IF node.else_block[1].kind = "if_statement"
                     THEN flatten_if_statement(c3, node.else_block[1])
                     ELSE flatten_code(c3, node.else_block[1]),
                     if_id, condition, then_start, get_next_alloc_id(c3))
        then_then(c2, condition) ==
            then_else(flatten_code(c2, node.then_block), c2.ret, condition, get_next_alloc_id(c2))
        then_if(c1) ==
            IF Panicked(c1) THEN c1
            ELSE then_then(alloc(c1, IfStatementInstr(c1.ret, PLACEHOLDER, PLACEHOLDER, PLACEHOLDER)),
                           c1.ret)
    IN  then_if(flatten_expr(c, node.condition))

\* the for_statement, once `from` is flattened to c2.ret: `to`, the instruction, the body
\* and the write-back of the bounds
flatten_for_statement_to(c2, node, loop_var_decl, loop_var_decl_frame) ==
    LET then_bounds(c5, for_id, end, code_start) ==
            IF Panicked(c5) THEN c5
            ELSE pop_frame([c5 EXCEPT !.instructions[for_id + 1] =
                               ForStatementInstr(loop_var_decl, c2.ret, end,
                                                 <<code_start, get_next_alloc_id(c5)>>)],
                           loop_var_decl_frame)
        then_body(c4, end) ==
            then_bounds(flatten_code_keep_context(c4, node.block), c4.ret, end, get_next_alloc_id(c4))
        then_for(c3) ==
            IF Panicked(c3) THEN c3
            ELSE then_body(alloc(c3, ForStatementInstr(loop_var_decl, c2.ret, c3.ret,
                                                       <<PLACEHOLDER, PLACEHOLDER>>)),
                           c3.ret)
    IN  IF Panicked(c2) THEN c2 ELSE then_for(flatten_expr(c2, node.to))

\* the for_statement, once the loop variable is declared as c1.ret: `from`
flatten_for_statement_from(c1, node, loop_var_decl_frame) ==
    IF Panicked(c1) THEN c1
    ELSE flatten_for_statement_to(flatten_expr(c1, node.from), node, c1.ret, loop_var_decl_frame)

\* a for_statement whose loop variable is declared as a plain wire that can be written
flatten_for_statement_plain_wire(c, node) ==
    LET c0 == new_frame(c)
    IN  flatten_for_statement_from(
            flatten_declaration(c0, FALSE, "PlainWire", FALSE, TRUE, node.for_decl),
            node, c0.ret)

\* the for_statement of flatten_code_keep_context: the loop variable, the bounds and
\* the body share one frame
flatten_for_statement(c, node) ==
    LET c0 == new_frame(c)
    IN  flatten_for_statement_from(
            flatten_declaration(c0, FALSE, "ForLoopGenerative", TRUE, TRUE, node.for_decl),
            node, c0.ret)

\* one iteration of the statement list of flatten_code_keep_context
flatten_statement(c, node) ==
    CASE node.kind = "assign_left_side" -> flatten_standalone_decls(c, node.items, 1)
      [] node.kind = "decl_assign_statement" -> flatten_decl_assign_statement(c, node)
      [] node.kind = "block" -> flatten_code(c, node)
      [] node.kind = "if_statement" -> flatten_if_statement(c, node)
      [] node.kind = "for_statement" -> flatten_for_statement(c, node)
      [] node.kind = "interface_statement" -> flatten_interface_ports(c, node)
      [] OTHER -> panic(c, "could_not_match")

\* the statements of a block from the i-th on, in the current frame; a panic ends them
RECURSIVE flatten_statements(_, _, _)
flatten_statements(c, stmts, i) ==
    IF Panicked(c) \/ i > Len(stmts) THEN c
    ELSE flatten_statements(flatten_statement(c, stmts[i]), stmts, i + 1)

\* flatten_code_keep_context: the statements of a block, in the current frame
flatten_code_keep_context(c, block) == flatten_statements(c, block.stmts, 1)

\* a flatten_code that leaves its frame open: no pop_frame
flatten_code_without_pop(c, block) == flatten_code_keep_context(new_frame(c), block)

\* flatten_code: the statements of a block, in a frame of their own
flatten_code(c, block) ==
    LET c0 == new_frame(c)
        then_pop(c1) == IF Panicked(c1) THEN c1 ELSE pop_frame(c1, c0.ret)
    IN  then_pop(flatten_code_keep_context(c0, block))

\* flatten_module: the interface ports, then the body
flatten_module(c, node) ==
    LET then_block(c1) == IF Panicked(c1) THEN c1 ELSE flatten_code(c1, node.block)
    IN  then_block(flatten_interface_ports(c, node))

(***************************************************************************)
(* Initialization (gather_initial_file_data): the modules of a file with   *)
(* their ports and interfaces, read off the syntax tree in source order.   *)
(* A declaration is a port when it stands in an interface port list or     *)
(* carries `input` or `output`; the iterator of a for loop never is one.   *)
(***************************************************************************)
RECURSIVE gather_decls(_, _, _, _)
\* the ports of a declaration list of an interface
gather_decls(ports, decls, is_input, interface) ==
    IF decls = <<>> THEN ports
    ELSE gather_decls(Append(ports, Port(Head(decls).name, Head(decls).name_span, is_input, interface)),
                      Tail(decls), is_input, interface)

RECURSIVE gather_assign_to(_, _)
\* the ports among the declarations of an assign_left_side
gather_assign_to(g, items) ==
    IF items = <<>> THEN g
    ELSE LET x == Head(items).expr_or_decl
         IN  IF x.kind = "declaration" /\ x.io_port_modifiers \in {"input", "output"}
             THEN gather_assign_to(
                      [g EXCEPT !.ports = Append(@, Port(x.name, x.name_span,
                                                         x.io_port_modifiers = "input", MAIN_INTERFACE_ID))],
                      Tail(items))
             ELSE gather_assign_to(g, Tail(items))

RECURSIVE gather_all_ports_in_block(_, _)
\* the ports and interfaces declared by the statements of a block
gather_all_ports_in_block(g, stmts) ==
    IF stmts = <<>> THEN g
    ELSE LET node == Head(stmts)
             g1 == CASE node.kind = "assign_left_side" -> gather_assign_to(g, node.items)
                     [] node.kind = "decl_assign_statement" -> gather_assign_to(g, node.assign_left)
                     [] node.kind = "block" -> gather_all_ports_in_block(g, node.stmts)
                     [] node.kind = "if_statement" ->
                           LET gt == gather_all_ports_in_block(g, node.then_block.stmts)
                           IN  IF node.else_block = <<>> THEN gt
                               ELSE IF node.else_block[1].kind = "if_statement"
                               THEN gather_all_ports_in_block(gt, <<node.else_block[1]>>)
                               ELSE gather_all_ports_in_block(gt, node.else_block[1].stmts)
                     [] node.kind = "for_statement" -> gather_all_ports_in_block(g, node.block.stmts)
                     [] node.kind = "interface_statement" ->
                           LET interface == Len(g.interfaces)
                               ins == gather_decls(g.ports, node.inputs, TRUE, interface)
                               outs == gather_decls(ins, node.outputs, FALSE, interface)
                           IN  [ports |-> outs,
                                interfaces |-> Append(g.interfaces,
                                    InterfaceRec(node.name, <<Len(g.ports), Len(ins)>>, <<Len(ins), Len(outs)>>))]
                     [] OTHER -> g
         IN  gather_all_ports_in_block(g1, Tail(stmts))

\* the Module object Initialization constructs for a module of a file
initial_module(node, file) ==
    LET ins == gather_decls(<<>>, node.inputs, TRUE, MAIN_INTERFACE_ID)
        outs == gather_decls(ins, node.outputs, FALSE, MAIN_INTERFACE_ID)
        g == gather_all_ports_in_block(
                 [ports |-> outs,
                  interfaces |-> <<InterfaceRec(node.name, <<0, Len(ins)>>, <<Len(ins), Len(outs)>>)>>],
                 node.block.stmts)
    IN  [live |-> TRUE, name |-> node.name, file |-> file,
         ports |-> g.ports, interfaces |-> g.interfaces,
         instructions |-> <<>>, errors |-> <<>>, after_initial_parse_cp |-> 0,
         after_flatten_cp |-> <<>>, template_arguments |-> <<>>, instantiations |-> <<>>,
         stage |-> "initialized", port_writes |-> [i \in 1..Len(g.ports) |-> 0]]

\* a freed slot of the module arena
FreeSlot ==
    [live |-> FALSE, name |-> "", file |-> PLACEHOLDER, ports |-> <<>>, interfaces |-> <<>>,
     instructions |-> <<>>, errors |-> <<>>, after_initial_parse_cp |-> 0,
     after_flatten_cp |-> <<>>, template_arguments |-> <<>>, instantiations |-> <<>>,
     stage |-> "free", port_writes |-> <<>>]

\* ArenaAllocator::alloc of n values in turn: each takes one of the free slots, whichever
\* the allocator prefers, or a new slot at the end when no slot is free
RECURSIVE AllocSeqs(_, _)
AllocSeqs(live, n) ==
    IF n = 0 THEN {<<>>}
    ELSE LET free == {i \in 1..Len(live) : ~live[i]}
             choices == IF free = {} THEN {Len(live) + 1} ELSE free
         IN  UNION {{<<i - 1>> \o rest :
                        rest \in AllocSeqs([j \in 1..(IF i > Len(live) THEN i ELSE Len(live)) |->
                                               IF j = i THEN TRUE ELSE live[j]], n - 1)} :
                    i \in choices}

(***************************************************************************)
(* The source texts the files are drawn from: a file is a list of modules. *)
(***************************************************************************)
\* the modules of the texts, by name
ModuleText(text) ==
    \* module m : input int a -> output int b { b = a }
    CASE text = "passthrough" ->
            Module("m", <<D("a", 1)>>, <<D("b", 2)>>, Block(<<Set("b", Id("a"))>>))
    \* module m : input int a, input int c -> output int b, output int d { b = a + c  d = 1 }
      [] text = "m_two" ->
            Module("m", <<D("a", 1), D("c", 2)>>, <<D("b", 3), D("d", 4)>>,
                    Block(<<Set("b", Bin(Id("a"), "+", Id("c"))), Set("d", Num(1))>>))
    \* module t : input int x -> output int y { y = m(x)  output int z  z = x }
      [] text = "t_calls_m" ->
            Module("t", <<D("x", 1)>>, <<D("y", 2)>>,
                        Block(<<Set("y", Call(Id("m"), <<Id("x")>>)),
                                Standalone(<<To(<<>>, DIO("output", "z", 3))>>),
                                Set("z", Id("x"))>>))
    \* module u { m inst  inst.a = 1  int r = inst.b }
      [] text = "u_instance" ->
            Module("u", <<>>, <<>>,
                         Block(<<Standalone(<<To(<<>>, Decl("", "", Id("m"), "inst", 1, <<>>))>>),
                                 Assign(<<To(<<>>, Field(Id("inst"), "a"))>>, Num(1)),
                                 Assign(<<To(<<>>, D("r", 2))>>, Field(Id("inst"), "b"))>>))
    \* module p : input int a -> output int b, output int c { b = a  c = a }
      [] text = "two_outputs" ->
            Module("p", <<D("a", 1)>>, <<D("b", 2), D("c", 3)>>,
                          Block(<<Set("b", Id("a")), Set("c", Id("a"))>>))
    \* module c : input bool s, input int a -> output int o {
    \*     if s { o = a } else if a == 1 { int k  o = k } else { o = 2 }
    \*     if s { }
    \* }
      [] text = "conditions" ->
            Module("c", <<Decl("", "", Id("bool"), "s", 1, <<>>), D("a", 2)>>, <<D("o", 3)>>,
                         Block(<<If(Id("s"), Block(<<Set("o", Id("a"))>>),
                                    <<If(Bin(Id("a"), "==", Num(1)),
                                         Block(<<Standalone(<<To(<<>>, D("k", 4))>>), Set("o", Id("k"))>>),
                                         <<Block(<<Set("o", Num(2))>>)>>)>>),
                                 If(Id("s"), Block(<<>>), <<>>)>>))
    \* module l { int[3] arr  for int i in 0..4 { arr[i] = i + 1 }  for int j in 0..2 { }
    \*            reg int x'1 = -arr[0] }
      [] text = "loops" ->
            Module("l", <<>>, <<>>,
                    Block(<<Standalone(<<To(<<>>, Decl("", "", ArrT(IntT, Num(3)), "arr", 1, <<>>))>>),
                            For(D("i", 2), Num(0), Num(4),
                                Block(<<Assign(<<To(<<>>, Arr(Id("arr"), Id("i")))>>, Bin(Id("i"), "+", Num(1)))>>)),
                            For(D("j", 3), Num(0), Num(2), Block(<<>>)),
                            Assign(<<To(<<"reg">>, Decl("", "", IntT, "x", 4, <<Num(1)>>))>>,
                                   Un("-", Arr(Id("arr"), Num(0))))>>))
    \* module w : input int a -> output int b {
    \*     a = 1  true = a  m inst  inst.b = a  inst.a = a  b = inst.b  for int i in 0..2 { i = 3 }
    \* }
      [] text = "bad_writes" ->
            Module("w", <<D("a", 1)>>, <<D("b", 2)>>,
                         Block(<<Set("a", Num(1)),
                                 Set("true", Id("a")),
                                 Standalone(<<To(<<>>, Decl("", "", Id("m"), "inst", 3, <<>>))>>),
                                 Assign(<<To(<<>>, Field(Id("inst"), "b"))>>, Id("a")),
                                 Assign(<<To(<<>>, Field(Id("inst"), "a"))>>, Id("a")),
                                 Set("b", Field(Id("inst"), "b")),
                                 For(D("i", 4), Num(0), Num(2), Block(<<Set("i", Num(3))>>))>>))
    \* module g : gen int n, state int s -> state int q, gen int r {
    \*     input state int z  output gen int v  gen int loc  state int st  input int okay
    \* }
      [] text = "modifiers" ->
            Module("g", <<DMod("gen", "n", 1), DMod("state", "s", 2)>>,
                             <<DMod("state", "q", 3), DMod("gen", "r", 4)>>,
                        Block(<<Standalone(<<To(<<>>, Decl("input", "state", IntT, "z", 5, <<>>))>>),
                                Standalone(<<To(<<>>, Decl("output", "gen", IntT, "v", 6, <<>>))>>),
                                Standalone(<<To(<<>>, DMod("gen", "loc", 7))>>),
                                Standalone(<<To(<<>>, DMod("state", "st", 8))>>),
                                Standalone(<<To(<<>>, DIO("input", "okay", 9))>>)>>))
    \* module k : input int x -> output int y, output int y2 {
    \*     y, y2 = p(x)  y = m(x, x)  int q = m()  p(x)  y2 = p(x)  y, y2 = m(x)
    \* }
      [] text = "calls" ->
            Module("k", <<D("x", 1)>>, <<D("y", 2), D("y2", 3)>>,
                    Block(<<Assign(<<To(<<>>, Id("y")), To(<<>>, Id("y2"))>>, Call(Id("p"), <<Id("x")>>)),
                            Set("y", Call(Id("m"), <<Id("x"), Id("x")>>)),
                            Assign(<<To(<<>>, D("q", 4))>>, Call(Id("m"), <<>>)),
                            Standalone(<<To(<<>>, Call(Id("p"), <<Id("x")>>))>>),
                            Set("y2", Bin(Call(Id("p"), <<Id("x")>>), "+", Num(1))),
                            Assign(<<To(<<>>, Id("y")), To(<<>>, Id("y2"))>>, Call(Id("m"), <<Id("x")>>))>>))
    \* module li : input int a'0 -> output int b'1 {
    \*     interface f : int q -> int r
    \*     if a == 0 { output int z  z = a }
    \*     b = a  r = q
    \* }
      [] text = "latency_and_interface" ->
        Module("li", <<Decl("", "", IntT, "a", 1, <<Num(0)>>)>>, <<Decl("", "", IntT, "b", 2, <<Num(1)>>)>>,
               Block(<<Interface("f", <<D("q", 3)>>, <<D("r", 4)>>),
                       If(Bin(Id("a"), "==", Num(0)),
                          Block(<<Standalone(<<To(<<>>, DIO("output", "z", 5))>>), Set("z", Id("a"))>>), <<>>),
                       Set("b", Id("a")),
                       Set("r", Id("q"))>>))
    \* module ma { int x = m[0]  int y = 1 }
      [] text = "module_array" ->
            Module("ma", <<>>, <<>>,
                   Block(<<Assign(<<To(<<>>, D("x", 1))>>, Arr(Id("m"), Num(0))),
                           Assign(<<To(<<>>, D("y", 2))>>, Num(1))>>))
    \* module ma { int x = 0  int y = 1 }
      [] text = "no_module_array" ->
            Module("ma", <<>>, <<>>,
                   Block(<<Assign(<<To(<<>>, D("x", 1))>>, Num(0)),
                           Assign(<<To(<<>>, D("y", 2))>>, Num(1))>>))
    \* module cl { int a  int a  int b }
      [] text = "wire_clash" ->
            Module("cl", <<>>, <<>>,
                   Block(<<Standalone(<<To(<<>>, D("a", 1))>>),
                           Standalone(<<To(<<>>, D("a", 2))>>),
                           Standalone(<<To(<<>>, D("b", 3))>>)>>))
    \* module ce : input int x -> output int y { int a = m(x) + 1  int b = p(x) + 1  int c = u() + 1 }
      [] text = "call_expressions" ->
            Module("ce", <<D("x", 1)>>, <<D("y", 2)>>,
                   Block(<<Assign(<<To(<<>>, D("a", 3))>>, Bin(Call(Id("m"), <<Id("x")>>), "+", Num(1))),
                           Assign(<<To(<<>>, D("b", 4))>>, Bin(Call(Id("p"), <<Id("x")>>), "+", Num(1))),
                           Assign(<<To(<<>>, D("c", 5))>>, Bin(Call(Id("u"), <<>>), "+", Num(1)))>>))
    \* module sc { int w  m w  m inst  int inst  int after }
      [] text = "submodule_clash" ->
            Module("sc", <<>>, <<>>,
                   Block(<<Standalone(<<To(<<>>, D("w", 1))>>),
                           Standalone(<<To(<<>>, Decl("", "", Id("m"), "w", 2, <<>>))>>),
                           Standalone(<<To(<<>>, Decl("", "", Id("m"), "inst", 3, <<>>))>>),
                           Standalone(<<To(<<>>, D("inst", 4))>>),
                           Standalone(<<To(<<>>, D("after", 5))>>)>>))

FileTexts == <<
    <<ModuleText("passthrough")>>,
    <<ModuleText("m_two")>>,
    <<ModuleText("t_calls_m")>>,
    <<ModuleText("u_instance"), ModuleText("passthrough")>>,
    <<ModuleText("two_outputs")>>,
    <<ModuleText("conditions")>>,
    <<ModuleText("loops")>>,
    <<ModuleText("bad_writes")>>,
    <<ModuleText("modifiers")>>,
    <<ModuleText("calls")>>,
    <<ModuleText("latency_and_interface")>>,
    <<ModuleText("module_array")>>,
    <<ModuleText("no_module_array")>>,
    <<ModuleText("wire_clash")>>,
    <<ModuleText("submodule_clash")>>,
    <<ModuleText("call_expressions")>>
>>
\* the file sets whose flattening is examined on its own
Programs == {
    <<1>>, <<6>>, <<7>>, <<1, 8>>, <<8>>, <<9>>, <<1, 5, 10>>, <<10, 2, 5>>, <<11>>, <<4>>, <<3>>,
    <<3, 1>>, <<6, 7>>, <<12, 1>>, <<13, 1>>, <<14>>, <<1, 15>>, <<4, 5, 16>>
}
\* the texts add_file and update_file are called with
DriverTexts == 1..4

(***************************************************************************)
(* The linker: files, module arena and global names.                       *)
(***************************************************************************)
RangeOf(seq) == {seq[i] : i \in 1..Len(seq)}
\* arena[id] = v, growing the arena for a new slot
Put(arena, id, v) == IF id + 1 > Len(arena) THEN Append(arena, v) ELSE [arena EXCEPT ![id + 1] = v]

RECURSIVE install_modules(_, _, _, _, _)
\* gather_initial_file_data: the k-th module of the text goes to the slot ids[k]
install_modules(arena, text, ids, file, k) ==
    IF k > Len(text) THEN arena
    ELSE install_modules(Put(arena, ids[k], initial_module(text[k], file)), text, ids, file, k + 1)

Linker(fs, mds, ns) == [files |-> fs, modules |-> mds, global_namespace |-> ns]
LiveFlags(mds) == [i \in 1..Len(mds) |-> mds[i].live]

\* with_file_builder + gather_initial_file_data on the file file_id holding the text t
initialize_file(lk, t, file_id, ids) ==
    Linker([lk.files EXCEPT ![file_id + 1] = [text |-> t, associated_values |-> ids]],
           install_modules(lk.modules, FileTexts[t], ids, file_id, 1),
           lk.global_namespace \cup {<<FileTexts[t][k].name, ids[k]>> : k \in 1..Len(FileTexts[t])})

\* add_file(text, linker) -> FileUUID, the modules taking the arena slots ids
add_file(lk, t, ids) ==
    initialize_file(Linker(Append(lk.files, [text |-> t, associated_values |-> <<>>]),
                           lk.modules, lk.global_namespace),
                    t, Len(lk.files), ids)

\* Linker::remove_everything_in_file: the file's entities leave the arenas and the names
remove_everything_in_file(lk, file_id) ==
    LET removed == RangeOf(lk.files[file_id + 1].associated_values)
    IN  Linker([lk.files EXCEPT ![file_id + 1].associated_values = <<>>],
               [i \in 1..Len(lk.modules) |-> IF (i - 1) \in removed THEN FreeSlot ELSE lk.modules[i]],
               {b \in lk.global_namespace : b[2] \notin removed})

\* an update that leaves out remove_everything_in_file: the names of the replaced
\* modules stay bound
update_file_without_remove(lk, t, file_id, ids) == initialize_file(lk, t, file_id, ids)
\* update_file(text, file_id, linker)
update_file(lk, t, file_id, ids) == initialize_file(remove_everything_in_file(lk, file_id), t, file_id, ids)

\* the live modules in arena order: `for (_, md) in &linker.modules`
LiveOrder(mds) == SelectSeq([i \in 1..Len(mds) |-> i - 1], LAMBDA id : mds[id + 1].live)

RECURSIVE ConcatAll(_)
ConcatAll(seqs) == IF seqs = <<>> THEN <<>> ELSE Head(seqs) \o ConcatAll(Tail(seqs))
\* the modules in the order flatten_all_modules visits them: file by file, and in a file
\* in the order of its module nodes
FlattenOrder(fs) == ConcatAll([f \in 1..Len(fs) |-> fs[f].associated_values])

\* the syntax tree of a module: the node paired with it by flatten_all_modules
NodeOf(lk, module_uuid) ==
    LET file == lk.files[lk.modules[module_uuid + 1].file + 1]
        k == CHOOSE k \in 1..Len(file.associated_values) : file.associated_values[k] = module_uuid
    IN  FileTexts[file.text][k]

\* flatten(linker, module_uuid, cursor): the context after flatten_module; all ports must
\* have been visited
flatten(lk, module_uuid) ==
    LET working_on == lk.modules[module_uuid + 1]
        then_ports_visited(c1) ==
            IF Panicked(c1) THEN c1
            ELSE IF c1.ports_to_visit[1] < c1.ports_to_visit[2]
            THEN panic(c1, "assert!(context.ports_to_visit.is_empty())")
            ELSE c1
    IN  then_ports_visited(flatten_module(
            [modules |-> lk.modules, global_namespace |-> lk.global_namespace,
             instructions |-> working_on.instructions, errors |-> working_on.errors,
             ports |-> working_on.ports, ports_to_visit |-> <<0, Len(working_on.ports)>>,
             lvc |-> new_initial, written |-> <<>>, panic |-> "", ret |-> 0],
            NodeOf(lk, module_uuid)))

(***************************************************************************)
(* The span history (src/debug.rs).  A span is given by a number; two      *)
(* recordings of the same span have the same number.                       *)
(***************************************************************************)
SPAN_TOUCH_HISTORY_SIZE == 256
NUM_SPANS_TO_PRINT == 10
\* usize::MAX..usize::MAX, the span of a slot never written
DEFAULT_RANGE == -1

\* the spans a program touches: with touch = 0 every recording of a region is of another
\* span, with touch < 0 the first -touch recordings are of spans of their own and all
\* later ones of one other span, else the recordings cycle through `touch` spans
Touches == {0, 3, 12, -3}
touched_span(t, cur_idx) ==
    IF t = 0 THEN cur_idx
    ELSE IF t < 0 THEN (IF cur_idx < -t THEN cur_idx + 1 ELSE 0)
    ELSE cur_idx % t

\* add_debug_span storing into the slot after the one of the recording
add_debug_span_next_slot(history, span_rng) ==
    [history EXCEPT !.num_spans = @ + 1,
                    !.span_history[(history.num_spans + 1) % SPAN_TOUCH_HISTORY_SIZE] = span_rng]

\* add_debug_span(span_rng)
add_debug_span(history, span_rng) ==
    [history EXCEPT !.num_spans = @ + 1,
                    !.span_history[history.num_spans % SPAN_TOUCH_HISTORY_SIZE] = span_rng]

\* the loop of print_most_recent_spans without the `contains` test
RECURSIVE most_recent_spans_iterate_no_dedup(_, _, _, _)
most_recent_spans_iterate_no_dedup(history, end_at, st, iterations) ==
    IF iterations = 0 \/ st.break \/ ~(st.cur_i > end_at) THEN st
    ELSE LET grabbed_span == history.span_history[(st.cur_i - 1) % SPAN_TOUCH_HISTORY_SIZE]
             pushed == Append(st.spans_to_print, grabbed_span)
         IN  most_recent_spans_iterate_no_dedup(
                 history, end_at,
                 [cur_i |-> st.cur_i - 1, spans_to_print |-> pushed,
                  break |-> Len(pushed) >= NUM_SPANS_TO_PRINT],
                 iterations - 1)

\* at most `iterations` iterations of the loop `while cur_i > end_at` of
\* print_most_recent_spans, from the loop state st: cur_i, spans_to_print, and whether
\* `break` was taken
RECURSIVE most_recent_spans_iterate(_, _, _, _)
most_recent_spans_iterate(history, end_at, st, iterations) ==
    IF iterations = 0 \/ st.break \/ ~(st.cur_i > end_at) THEN st
    ELSE LET grabbed_span == history.span_history[(st.cur_i - 1) % SPAN_TOUCH_HISTORY_SIZE]
             pushed == IF \E k \in 1..Len(st.spans_to_print) : st.spans_to_print[k] = grabbed_span
                       THEN st.spans_to_print
                       ELSE Append(st.spans_to_print, grabbed_span)
         IN  most_recent_spans_iterate(
                 history, end_at,
                 [cur_i |-> st.cur_i - 1, spans_to_print |-> pushed,
                  break |-> Len(pushed) >= NUM_SPANS_TO_PRINT],
                 iterations - 1)

\* the loop `while cur_i > end_at` of print_most_recent_spans, sixteen iterations at a
\* time
RECURSIVE most_recent_spans(_, _, _)
most_recent_spans(history, end_at, st) ==
    IF st.break \/ ~(st.cur_i > end_at) THEN st.spans_to_print
    ELSE most_recent_spans(history, end_at, most_recent_spans_iterate(history, end_at, st, 16))

\* a print that scans every slot of the buffer, whatever the recording count is
print_most_recent_spans_whole_buffer(history) ==
    most_recent_spans(history, 0,
                      [cur_i |-> SPAN_TOUCH_HISTORY_SIZE, spans_to_print |-> <<>>, break |-> FALSE])

\* print_most_recent_spans: the spans handed to pretty_print_spans_in_reverse_order
print_most_recent_spans(history) ==
    most_recent_spans(history,
                      IF history.num_spans > SPAN_TOUCH_HISTORY_SIZE
                      THEN history.num_spans - SPAN_TOUCH_HISTORY_SIZE
                      ELSE 0,
                      [cur_i |-> history.num_spans, spans_to_print |-> <<>>, break |-> FALSE])

\* the thread starts: SPANS_HISTORY as thread_local! makes it, and no SpanDebugger
InitSpans(t) ==
    /\ SPANS_HISTORY = [span_history |-> [i \in 0..(SPAN_TOUCH_HISTORY_SIZE - 1) |-> DEFAULT_RANGE],
                        num_spans |-> 0,
                        in_use |-> FALSE]
    /\ span_debuggers = <<>>
    /\ spans_to_print = <<>>
    /\ assertion_failed = ""
    /\ touch = t

\* SpanDebugger::new(context, file_text)
SpanDebuggerNew ==
    /\ assertion_failed = ""
    /\ Len(span_debuggers) < MaxDebuggers
    /\ IF SPANS_HISTORY.in_use
       THEN /\ assertion_failed' = "assert!(!history.in_use)"
            /\ UNCHANGED <<SPANS_HISTORY, span_debuggers>>
       ELSE /\ SPANS_HISTORY' = [SPANS_HISTORY EXCEPT !.in_use = TRUE, !.num_spans = 0]
            /\ span_debuggers' = Append(span_debuggers, [defused |-> FALSE, dropped |-> FALSE])
            /\ UNCHANGED assertion_failed
    /\ UNCHANGED <<files, modules, global_namespace, pc, cur, updates, recompiles, compiled,
                   prev_ir, same_text_only, spans_to_print, touch>>

\* add_debug_span of the next span the program touches, within a region
AddDebugSpan ==
    /\ assertion_failed = ""
    /\ SPANS_HISTORY.in_use
    /\ SPANS_HISTORY.num_spans < (IF Len(span_debuggers) = 1 THEN MaxSpans ELSE MaxLaterSpans)
    /\ SPANS_HISTORY' = add_debug_span(SPANS_HISTORY, touched_span(touch, SPANS_HISTORY.num_spans))
    /\ UNCHANGED <<files, modules, global_namespace, pc, cur, updates, recompiles, compiled,
                   prev_ir, same_text_only, span_debuggers, spans_to_print, assertion_failed, touch>>

\* SpanDebugger::defuse of a SpanDebugger that was not dropped yet
SpanDebuggerDefuse ==
    /\ assertion_failed = ""
    /\ \E d \in 1..Len(span_debuggers) :
          /\ ~span_debuggers[d].dropped
          /\ IF SPANS_HISTORY.in_use
             THEN /\ SPANS_HISTORY' = [SPANS_HISTORY EXCEPT !.in_use = FALSE]
                  /\ span_debuggers' = [span_debuggers EXCEPT ![d].defused = TRUE]
                  /\ UNCHANGED assertion_failed
             ELSE /\ assertion_failed' = "assert!(history.in_use)"
                  /\ UNCHANGED <<SPANS_HISTORY, span_debuggers>>
    /\ UNCHANGED <<files, modules, global_namespace, pc, cur, updates, recompiles, compiled,
                   prev_ir, same_text_only, spans_to_print, touch>>

\* a Drop that gives the region back: in_use is cleared
SpanDebuggerDrop_releasing ==
    /\ \E d \in 1..Len(span_debuggers) :
          /\ ~span_debuggers[d].dropped
          /\ span_debuggers' = [span_debuggers EXCEPT ![d].dropped = TRUE]
          /\ IF span_debuggers[d].defused
             THEN UNCHANGED <<SPANS_HISTORY, spans_to_print, assertion_failed>>
             ELSE IF SPANS_HISTORY.in_use
             THEN /\ spans_to_print' = <<print_most_recent_spans(SPANS_HISTORY)>>
                  /\ SPANS_HISTORY' = [SPANS_HISTORY EXCEPT !.in_use = FALSE]
                  /\ UNCHANGED assertion_failed
             ELSE /\ assertion_failed' = "assert!(history.in_use)"
                  /\ UNCHANGED <<SPANS_HISTORY, spans_to_print>>
    /\ UNCHANGED <<files, modules, global_namespace, pc, cur, updates, recompiles, compiled,
                   prev_ir, same_text_only, touch>>

\* Drop for SpanDebugger, at the end of its scope or when a panic unwinds: a SpanDebugger
\* that is not defused prints
SpanDebuggerDrop ==
    /\ \E d \in 1..Len(span_debuggers) :
          /\ ~span_debuggers[d].dropped
          /\ span_debuggers' = [span_debuggers EXCEPT ![d].dropped = TRUE]
          /\ IF span_debuggers[d].defused
             THEN UNCHANGED <<spans_to_print, assertion_failed>>
             ELSE IF SPANS_HISTORY.in_use
             THEN /\ spans_to_print' = <<print_most_recent_spans(SPANS_HISTORY)>>
                  /\ UNCHANGED assertion_failed
             ELSE /\ assertion_failed' = "assert!(history.in_use)"
                  /\ UNCHANGED spans_to_print
    /\ UNCHANGED <<files, modules, global_namespace, pc, cur, updates, recompiles, compiled,
                   prev_ir, same_text_only, SPANS_HISTORY, touch>>

(***************************************************************************)
(* The driver (src/compiler_top.rs).                                       *)
(***************************************************************************)
\* the variables of the span history
debug_vars == <<SPANS_HISTORY, span_debuggers, spans_to_print, assertion_failed, touch>>
TheLinker == Linker(files, modules, global_namespace)
SetLinker(lk) ==
    /\ files' = lk.files
    /\ modules' = lk.modules
    /\ global_namespace' = lk.global_namespace

\* the instruction list of every arena slot
IR(mds) == [i \in 1..Len(mds) |-> mds[i].instructions]

Init ==
    /\ files = <<>>
    /\ modules = <<>>
    /\ global_namespace = {}
    /\ pc = "idle"
    /\ cur = 0
    /\ updates = 0
    /\ recompiles = 0
    /\ compiled = FALSE
    /\ prev_ir = <<>>
    /\ same_text_only = TRUE
    /\ InitSpans(0)

\* add_file(text, linker): the file is reserved, and gather_initial_file_data runs in a
\* region of its own: SpanDebugger::new, and defuse before the closure returns
AddFile ==
    /\ pc = "idle"
    /\ Len(files) < MaxFiles
    /\ \E t \in DriverTexts :
         \E ids \in AllocSeqs(LiveFlags(modules), Len(FileTexts[t])) :
            IF SPANS_HISTORY.in_use
            THEN SetLinker(Linker(Append(files, [text |-> t, associated_values |-> <<>>]),
                                  modules, global_namespace))
            ELSE SetLinker(add_file(TheLinker, t, ids))
    /\ IF SPANS_HISTORY.in_use
       THEN /\ assertion_failed' = "assert!(!history.in_use)"
            /\ pc' = "panicked"
            /\ UNCHANGED <<SPANS_HISTORY, span_debuggers>>
       ELSE /\ SPANS_HISTORY' = [SPANS_HISTORY EXCEPT !.in_use = FALSE, !.num_spans = 0]
            /\ span_debuggers' = Append(span_debuggers, [defused |-> TRUE, dropped |-> TRUE])
            /\ UNCHANGED <<pc, assertion_failed>>
    /\ compiled' = FALSE
    /\ prev_ir' = <<>>
    /\ UNCHANGED <<cur, updates, recompiles, same_text_only, spans_to_print, touch>>

\* update_file(text, file_id, linker): the file's entities are removed, its text is
\* replaced, and gather_initial_file_data runs in a region of its own
UpdateFile ==
    /\ pc = "idle"
    /\ updates < MaxUpdates
    /\ \E file_id \in 0..(Len(files) - 1) :
         \E t \in DriverTexts :
            /\ \E ids \in AllocSeqs(LiveFlags(remove_everything_in_file(TheLinker, file_id).modules),
                                    Len(FileTexts[t])) :
                  IF SPANS_HISTORY.in_use
                  THEN SetLinker([remove_everything_in_file(TheLinker, file_id)
                                     EXCEPT !.files[file_id + 1].text = t])
                  ELSE SetLinker(update_file(TheLinker, t, file_id, ids))
            /\ same_text_only' = (same_text_only /\ t = files[file_id + 1].text)
    /\ IF SPANS_HISTORY.in_use
       THEN /\ assertion_failed' = "assert!(!history.in_use)"
            /\ pc' = "panicked"
            /\ UNCHANGED <<SPANS_HISTORY, span_debuggers>>
       ELSE /\ SPANS_HISTORY' = [SPANS_HISTORY EXCEPT !.in_use = FALSE, !.num_spans = 0]
            /\ span_debuggers' = Append(span_debuggers, [defused |-> TRUE, dropped |-> TRUE])
            /\ UNCHANGED <<pc, assertion_failed>>
    /\ updates' = updates + 1
    /\ compiled' = FALSE
    /\ prev_ir' = <<>>
    /\ UNCHANGED <<cur, recompiles, spans_to_print, touch>>

\* recompile_all is entered
RecompileAll ==
    /\ pc = "idle"
    /\ recompiles < MaxRecompiles
    /\ pc' = "reset"
    /\ cur' = 0
    /\ recompiles' = recompiles + 1
    /\ prev_ir' = IF compiled THEN <<IR(modules)>> ELSE <<>>
    /\ UNCHANGED <<files, modules, global_namespace, updates, compiled, same_text_only>>
    /\ UNCHANGED debug_vars

\* a reset that leaves out `md.instructions.clear()`: the flattener then appends to the
\* instruction list of the previous recompilation
reset_module_keeping_instructions(md) ==
    [md EXCEPT !.errors = SubSeq(@, 1, md.after_initial_parse_cp),
               !.after_flatten_cp = <<>>,
               !.instantiations = <<>>,
               !.stage = "reset"]
\* the body of the first loop of recompile_all: one module back to post-initialization
reset_module(md) ==
    [md EXCEPT !.errors = SubSeq(@, 1, md.after_initial_parse_cp),
               !.after_flatten_cp = <<>>,
               !.instructions = <<>>,
               !.instantiations = <<>>,
               !.stage = "reset"]

ResetStep ==
    /\ pc = "reset"
    /\ cur < Len(LiveOrder(modules))
    /\ LET id == LiveOrder(modules)[cur + 1]
       IN  modules' = [modules EXCEPT ![id + 1] = reset_module(@)]
    /\ cur' = cur + 1
    /\ UNCHANGED <<files, global_namespace, pc, updates, recompiles, compiled, prev_ir, same_text_only>>
    /\ UNCHANGED debug_vars

\* the module after flatten() returned with the context c
flattened_module(md, c) ==
    [md EXCEPT !.instructions = c.instructions,
               !.errors = c.errors,
               !.ports = c.ports,
               !.stage = "flattened",
               !.port_writes = [i \in 1..Len(md.ports) |-> @[i] + Count(c.written, i - 1)]]

\* the result of flatten() is stored and the instruction lists of the other modules are
\* emptied
store_flattened_emptying_others(id, c) ==
    modules' = [i \in 1..Len(modules) |->
                   IF i = id + 1 THEN flattened_module(modules[i], c)
                   ELSE [modules[i] EXCEPT !.instructions = <<>>]]

\* the result of flatten() is stored, also what a flatten() that panicked had written
store_flattened(id, c) ==
    IF Panicked(c)
    THEN modules' = [modules EXCEPT ![id + 1].instructions = c.instructions,
                                   ![id + 1].errors = c.errors,
                                   ![id + 1].ports = c.ports]
    ELSE modules' = [modules EXCEPT ![id + 1] = flattened_module(@, c)]

\* a flatten_all_modules whose loop body ends without `span_debugger.defuse()`
FlattenStep_without_defuse ==
    /\ pc = "flatten"
    /\ cur < Len(FlattenOrder(files))
    /\ LET module_uuid == FlattenOrder(files)[cur + 1]
           file == files[modules[module_uuid + 1].file + 1]
           first == file.associated_values[1] = module_uuid
           last == file.associated_values[Len(file.associated_values)] = module_uuid
           history == IF first THEN [SPANS_HISTORY EXCEPT !.in_use = TRUE, !.num_spans = 0]
                      ELSE SPANS_HISTORY
           created == IF first THEN Append(span_debuggers, [defused |-> FALSE, dropped |-> FALSE])
                      ELSE span_debuggers
           flattened(c) ==
               /\ store_flattened(module_uuid, c)
               /\ SPANS_HISTORY' = history
               /\ IF Panicked(c)
                  THEN /\ pc' = "panicked"
                       /\ span_debuggers' = [created EXCEPT ![Len(created)].dropped = TRUE]
                       /\ spans_to_print' = <<print_most_recent_spans(history)>>
                  ELSE /\ pc' = pc
                       /\ span_debuggers' = IF last THEN [created EXCEPT ![Len(created)].dropped = TRUE]
                                            ELSE created
                       /\ spans_to_print' = IF last THEN <<print_most_recent_spans(history)>>
                                            ELSE spans_to_print
               /\ UNCHANGED assertion_failed
       IN  IF first /\ SPANS_HISTORY.in_use
           THEN /\ assertion_failed' = "assert!(!history.in_use)"
                /\ pc' = "panicked"
                /\ UNCHANGED <<modules, SPANS_HISTORY, span_debuggers, spans_to_print>>
           ELSE flattened(flatten(TheLinker, module_uuid))
    /\ cur' = cur + 1
    /\ UNCHANGED <<files, global_namespace, updates, recompiles, compiled, prev_ir, same_text_only, touch>>

\* one module of flatten_all_modules. The loop of flatten_all_modules is over the files:
\* SpanDebugger::new comes before the first module of a file and defuse after its last
\* module, and every file text holds a module. A panic of flatten() unwinds through the
\* SpanDebugger, which is dropped without defuse and prints.
FlattenStep ==
    /\ pc = "flatten"
    /\ cur < Len(FlattenOrder(files))
    /\ LET module_uuid == FlattenOrder(files)[cur + 1]
           file == files[modules[module_uuid + 1].file + 1]
           first == file.associated_values[1] = module_uuid
           last == file.associated_values[Len(file.associated_values)] = module_uuid
           history == IF first THEN [SPANS_HISTORY EXCEPT !.in_use = TRUE, !.num_spans = 0]
                      ELSE SPANS_HISTORY
           created == IF first THEN Append(span_debuggers, [defused |-> FALSE, dropped |-> FALSE])
                      ELSE span_debuggers
           flattened(c) ==
               /\ store_flattened(module_uuid, c)
               /\ IF Panicked(c)
                  THEN /\ pc' = "panicked"
                       /\ SPANS_HISTORY' = history
                       /\ span_debuggers' = [created EXCEPT ![Len(created)].dropped = TRUE]
                       /\ spans_to_print' = <<print_most_recent_spans(history)>>
                       /\ UNCHANGED assertion_failed
                  ELSE IF last /\ ~history.in_use
                  THEN /\ pc' = "panicked"
                       /\ assertion_failed' = "assert!(history.in_use)"
                       /\ SPANS_HISTORY' = history
                       /\ span_debuggers' = [created EXCEPT ![Len(created)].dropped = TRUE]
                       /\ UNCHANGED spans_to_print
                  ELSE /\ pc' = pc
                       /\ SPANS_HISTORY' = IF last THEN [history EXCEPT !.in_use = FALSE] ELSE history
                       /\ span_debuggers' = IF last
                                            THEN [created EXCEPT ![Len(created)] =
                                                     [defused |-> TRUE, dropped |-> TRUE]]
                                            ELSE created
                       /\ UNCHANGED <<spans_to_print, assertion_failed>>
       IN  IF first /\ SPANS_HISTORY.in_use
           THEN /\ assertion_failed' = "assert!(!history.in_use)"
                /\ pc' = "panicked"
                /\ UNCHANGED <<modules, SPANS_HISTORY, span_debuggers, spans_to_print>>
           ELSE flattened(flatten(TheLinker, module_uuid))
    /\ cur' = cur + 1
    /\ UNCHANGED <<files, global_namespace, updates, recompiles, compiled, prev_ir, same_text_only, touch>>

\* typecheck_all_modules for one module: the types of the wires and declarations are set
typecheck_module(md) ==
    [md EXCEPT !.instructions = [i \in 1..Len(@) |->
                                    IF @[i].tag \in {"Wire", "Declaration"}
                                    THEN [@[i] EXCEPT !.typ = "set"] ELSE @[i]],
               !.after_flatten_cp = <<Len(md.errors)>>,
               !.stage = "typechecked"]

TypecheckStep ==
    /\ pc = "typecheck"
    /\ cur < Len(LiveOrder(modules))
    /\ LET id == LiveOrder(modules)[cur + 1]
       IN  modules' = [modules EXCEPT ![id + 1] = typecheck_module(@)]
    /\ cur' = cur + 1
    /\ UNCHANGED <<files, global_namespace, pc, updates, recompiles, compiled, prev_ir, same_text_only>>
    /\ UNCHANGED debug_vars

\* the body of the last loop of recompile_all: a module without template arguments is
\* instantiated with an empty argument map
instantiate_module(md) ==
    [md EXCEPT !.instantiations = IF md.template_arguments = <<>> THEN Append(@, <<>>) ELSE @,
               !.stage = "instantiated"]

\* one module of the last loop of recompile_all, in a region of its own
InstantiateStep ==
    /\ pc = "instantiate"
    /\ cur < Len(LiveOrder(modules))
    /\ IF SPANS_HISTORY.in_use
       THEN /\ assertion_failed' = "assert!(!history.in_use)"
            /\ pc' = "panicked"
            /\ UNCHANGED <<modules, SPANS_HISTORY, span_debuggers>>
       ELSE /\ LET id == LiveOrder(modules)[cur + 1]
               IN  modules' = [modules EXCEPT ![id + 1] = instantiate_module(@)]
            /\ SPANS_HISTORY' = [SPANS_HISTORY EXCEPT !.in_use = FALSE, !.num_spans = 0]
            /\ span_debuggers' = Append(span_debuggers, [defused |-> TRUE, dropped |-> TRUE])
            /\ UNCHANGED <<pc, assertion_failed>>
    /\ cur' = cur + 1
    /\ UNCHANGED <<files, global_namespace, updates, recompiles, compiled, prev_ir, same_text_only,
                   spans_to_print, touch>>

\* a loop that is left after its first module: the stages of two modules then interleave
StageLength_first_module_only ==
    IF pc = "flatten" THEN Len(FlattenOrder(files))
    ELSE IF Len(LiveOrder(modules)) > 1 THEN 1 ELSE Len(LiveOrder(modules))
\* a loop of recompile_all is done: the next stage starts, or recompile_all returns
StageLength == IF pc = "flatten" THEN Len(FlattenOrder(files)) ELSE Len(LiveOrder(modules))
NextStage ==
    /\ pc \in {"reset", "flatten", "typecheck", "instantiate"}
    /\ cur = StageLength
    /\ pc' = CASE pc = "reset" -> "flatten"
               [] pc = "flatten" -> "typecheck"
               [] pc = "typecheck" -> "instantiate"
               [] pc = "instantiate" -> "idle"
    /\ cur' = 0
    /\ compiled' = (pc = "instantiate" \/ compiled)
    /\ UNCHANGED <<files, modules, global_namespace, updates, recompiles, prev_ir, same_text_only>>
    /\ UNCHANGED debug_vars

Next ==
    \/ AddFile
    \/ UpdateFile
    \/ RecompileAll
    \/ ResetStep
    \/ FlattenStep
    \/ TypecheckStep
    \/ InstantiateStep
    \/ NextStage

Spec == Init /\ [][Next]_vars

(***************************************************************************)
(* The recompilation of a given file set: the linker holds the files of    *)
(* one of the Programs, added in order, and recompile_all runs.            *)
(***************************************************************************)
RECURSIVE FreshLinker(_, _)
\* the linker after add_file of the first n texts, in order, on a new linker
FreshLinker(texts, n) ==
    IF n = 0 THEN Linker(<<>>, <<>>, {})
    ELSE LET lk == FreshLinker(texts, n - 1)
         IN  add_file(lk, texts[n],
                      CHOOSE ids \in AllocSeqs(LiveFlags(lk.modules), Len(FileTexts[texts[n]])) : TRUE)

InitFlatten ==
    /\ \E program \in Programs :
         LET lk == FreshLinker(program, Len(program))
         IN  /\ files = lk.files
             /\ modules = lk.modules
             /\ global_namespace = lk.global_namespace
    /\ pc = "idle"
    /\ cur = 0
    /\ updates = 0
    /\ recompiles = 0
    /\ compiled = FALSE
    /\ prev_ir = <<>>
    /\ same_text_only = TRUE
    /\ InitSpans(0)

NextFlatten ==
    \/ RecompileAll
    \/ ResetStep
    \/ FlattenStep
    \/ TypecheckStep
    \/ InstantiateStep
    \/ NextStage

SpecFlatten == InitFlatten /\ [][NextFlatten]_vars

(***************************************************************************)
(* The span history on its own: one thread that creates, defuses and drops *)
(* SpanDebuggers and touches spans; the linker stays empty.                *)
(***************************************************************************)
InitDebug ==
    /\ files = <<>>
    /\ modules = <<>>
    /\ global_namespace = {}
    /\ pc = "idle"
    /\ cur = 0
    /\ updates = 0
    /\ recompiles = 0
    /\ compiled = FALSE
    /\ prev_ir = <<>>
    /\ same_text_only = TRUE
    /\ \E t \in Touches : InitSpans(t)

NextDebug ==
    \/ SpanDebuggerNew
    \/ AddDebugSpan
    \/ SpanDebuggerDefuse
    \/ SpanDebuggerDrop

SpecDebug == InitDebug /\ [][NextDebug]_vars

(***************************************************************************)
(* Properties of the driver: add_file, update_file and recompile_all.      *)
(***************************************************************************)
\* the IDs of the live modules
LiveIds == {id \in 0..(Len(modules) - 1) : modules[id + 1].live}
\* the stages of the live modules
Stages == {modules[id + 1].stage : id \in LiveIds}

\* C1: within one recompile_all the stages run one after the other over all modules:
\* while modules are flattened every module has been reset, while modules are
\* typechecked every module has been flattened, while modules are instantiated every
\* module has been typechecked, and when recompile_all returns every module is
\* instantiated.
C1_StagesInSequence ==
    /\ pc = "flatten" => Stages \subseteq {"reset", "flattened"}
    /\ pc = "typecheck" => Stages \subseteq {"flattened", "typechecked"}
    /\ pc = "instantiate" => Stages \subseteq {"typechecked", "instantiated"}
    /\ (pc = "idle" /\ compiled) => Stages \subseteq {"instantiated"}
\* two modules in the middle of a stage: one typechecked, the other one not yet
C1_Witness ==
    /\ pc = "typecheck"
    /\ recompiles = 2
    /\ \E a, b \in LiveIds : modules[a + 1].stage = "typechecked" /\ modules[b + 1].stage = "flattened"

\* C2: a recompile_all that follows a completed recompile_all, with no add_file or
\* update_file in between, leaves every module with the instruction list it had.
C2_RecompileIdempotent ==
    (pc = "idle" /\ compiled /\ prev_ir # <<>>) => IR(modules) = prev_ir[1]
\* the second recompile_all has returned, and there are instructions to compare
C2_Witness ==
    /\ pc = "idle" /\ compiled /\ prev_ir # <<>>
    /\ \E id \in LiveIds : \E i \in 1..Len(modules[id + 1].instructions) :
          modules[id + 1].instructions[i].tag = "SubModule"

\* the texts of the files, in file order
TextsOf(fs) == [f \in 1..Len(fs) |-> fs[f].text]
\* the linker after recompile_all ran on lk
recompiled(lk) ==
    [lk EXCEPT !.modules = [i \in 1..Len(lk.modules) |->
        IF lk.modules[i].live
        THEN instantiate_module(typecheck_module(
                 flattened_module(reset_module(lk.modules[i]), flatten(lk, i - 1))))
        ELSE lk.modules[i]]]
\* add_file of every text on a new linker, then recompile_all
FreshCompile == recompiled(FreshLinker(TextsOf(files), Len(files)))
\* what C3 compares of a module
ModuleIR(md) == [live |-> md.live, name |-> md.name, ports |-> md.ports,
                 interfaces |-> md.interfaces, instructions |-> md.instructions]
\* the place of a module in the files: the file and the position among the file's modules
PlaceOf(lk, module_uuid) ==
    LET f == lk.modules[module_uuid + 1].file
        ids == lk.files[f + 1].associated_values
    IN  <<f, CHOOSE k \in 1..Len(ids) : ids[k] = module_uuid>>
\* ModuleIR with every module ID replaced by the module's place
PlacedIR(lk, module_uuid) ==
    LET md == lk.modules[module_uuid + 1]
    IN  [name |-> md.name, ports |-> md.ports, interfaces |-> md.interfaces,
         instructions |-> [i \in 1..Len(md.instructions) |->
             IF md.instructions[i].tag = "SubModule"
             THEN [tag |-> "SubModule", name |-> md.instructions[i].name,
                   module_uuid |-> PlaceOf(lk, md.instructions[i].module_uuid)]
             ELSE md.instructions[i]]]
\* only same-text updates happened, and recompile_all has returned
RoundTripDone == pc = "idle" /\ compiled /\ updates > 0 /\ same_text_only

AllReset ==
    \A id \in LiveIds :
        /\ modules[id + 1].instructions = <<>>
        /\ modules[id + 1].after_flatten_cp = <<>>
        /\ modules[id + 1].instantiations = <<>>
\* C4: the reset loop of recompile_all changes no port, no interface and no global
\* name binding, and when it is done every module has an empty instruction list, no
\* after_flatten_cp and no instantiation.
C4_ResetFrame ==
    [][ pc = "reset" =>
          /\ global_namespace' = global_namespace
          /\ Len(modules') = Len(modules)
          /\ \A i \in 1..Len(modules) :
                /\ modules'[i].ports = modules[i].ports
                /\ modules'[i].interfaces = modules[i].interfaces
                /\ modules'[i].live = modules[i].live
          /\ pc' = "flatten" => AllReset' ]_vars
\* the reset loop of a second recompile_all is done: the modules had instructions and
\* instantiations, and the ports still hold their declaration_instruction
C4_Witness ==
    /\ pc = "flatten" /\ cur = 0 /\ recompiles = 2
    /\ AllReset
    /\ \E id \in LiveIds : \E p \in 1..Len(modules[id + 1].ports) :
          modules[id + 1].ports[p].declaration_instruction # PLACEHOLDER

\* the wire references of an instruction
WireReferencesOf(instr) ==
    CASE instr.tag = "Wire" -> instr.source.ref
      [] instr.tag = "Write" -> <<instr.to>>
      [] OTHER -> <<>>
\* C5: when recompile_all has returned, the module ID of every SubModule instruction is
\* the ID of a live module, the port ID of every SubModulePort reference is a port of
\* that module, and the ports of every function call are ports of the called module.
C5_IDsAreLive ==
    (pc = "idle" /\ compiled) =>
        \A id \in LiveIds :
            LET instructions == modules[id + 1].instructions
            IN  \A i \in 1..Len(instructions) :
                   /\ instructions[i].tag = "SubModule" => instructions[i].module_uuid \in LiveIds
                   /\ \A r \in 1..Len(WireReferencesOf(instructions[i])) :
                         LET root == WireReferencesOf(instructions[i])[r].root
                         IN  root.root = "SubModulePort" =>
                                /\ At(instructions, root.id).tag = "SubModule"
                                /\ At(instructions, root.id).module_uuid \in LiveIds
                                /\ root.port \in 0..(Len(modules[At(instructions, root.id).module_uuid + 1].ports) - 1)
                   /\ instructions[i].tag = "FuncCall" =>
                         LET sm == At(instructions, instructions[i].interface_reference.submodule_decl)
                         IN  /\ sm.tag = "SubModule"
                             /\ sm.module_uuid \in LiveIds
                             /\ instructions[i].func_call_outputs[2] <= Len(modules[sm.module_uuid + 1].ports)
\* recompile_all has returned after an update that changed a text, and a module
\* instantiates a submodule
C5_Witness ==
    /\ pc = "idle" /\ compiled /\ updates > 0 /\ ~same_text_only
    /\ Len(modules) > Cardinality(LiveIds)
    /\ \E id \in LiveIds : \E i \in 1..Len(modules[id + 1].instructions) :
          modules[id + 1].instructions[i].tag = "SubModule"

\* C8 as stated: the declaration_instruction of a port is written once and never again.
C8_WrittenOnce ==
    \A id \in LiveIds : \A p \in 1..Len(modules[id + 1].ports) : modules[id + 1].port_writes[p] <= 1
\* the module that FlattenStep flattens
FlattenedNow == FlattenOrder(files)[cur + 1]
\* C8: the declaration_instruction of a port is PLACEHOLDER until the first flattening of
\* its module; while the port is live only the flattening of its module changes it, and
\* every completed flattening of its module, one in each recompile_all, writes it
\* exactly once.
C8_WrittenOncePerFlattening ==
    [][ updates' = updates =>
          \A i \in 1..Len(modules) : modules[i].live =>
              \A p \in 1..Len(modules[i].ports) :
                  /\ modules[i].port_writes[p] = 0
                        => modules[i].ports[p].declaration_instruction = PLACEHOLDER
                  /\ (pc = "flatten" /\ pc' = "flatten" /\ cur' = cur + 1 /\ FlattenedNow = i - 1)
                        => /\ modules'[i].port_writes[p] = modules[i].port_writes[p] + 1
                           /\ modules'[i].ports[p].declaration_instruction # PLACEHOLDER
                  /\ ~(pc = "flatten" /\ cur' = cur + 1 /\ FlattenedNow = i - 1)
                        => /\ modules'[i].port_writes[p] = modules[i].port_writes[p]
                           /\ modules'[i].ports[p].declaration_instruction
                                 = modules[i].ports[p].declaration_instruction ]_vars
\* a port that was written by the flattening of two recompile_all calls
C8_Witness ==
    \E id \in LiveIds : \E p \in 1..Len(modules[id + 1].ports) :
        /\ modules[id + 1].port_writes[p] = 2
        /\ modules[id + 1].ports[p].declaration_instruction # PLACEHOLDER

(***************************************************************************)
(* Properties of the instruction list that flattening leaves in a module.  *)
(***************************************************************************)
\* the live modules that flattening has completed on
FlattenedIds == {id \in LiveIds : modules[id + 1].stage \in {"flattened", "typechecked", "instantiated"}}

RECURSIVE FlatIDsOfType(_)
\* the FlatIDs of a WrittenType: the size wires of its array types
FlatIDsOfType(typ_expr) ==
    IF typ_expr.t = "Array" THEN {typ_expr.id} \cup FlatIDsOfType(typ_expr.elem[1]) ELSE {}
\* the FlatIDs of a WireReference: its root, unless a named constant, and its array indices
FlatIDsOfReference(wr) ==
    (IF wr.root.root \in {"LocalDecl", "SubModulePort"} THEN {wr.root.id} ELSE {}) \cup RangeOf(wr.path)
\* the FlatIDs an instruction uses as operands, the bounds of If and For left out
FlatIDsOf(instr) ==
    CASE instr.tag = "Wire" ->
            (CASE instr.source.src = "WireRef" -> FlatIDsOfReference(instr.source.ref[1])
               [] instr.source.src = "UnaryOp" -> {instr.source.right}
               [] instr.source.src = "BinaryOp" -> {instr.source.left, instr.source.right}
               [] OTHER -> {})
      [] instr.tag = "Declaration" -> RangeOf(instr.latency_specifier) \cup FlatIDsOfType(instr.typ_expr)
      [] instr.tag = "Write" -> {instr.from} \cup FlatIDsOfReference(instr.to)
      [] instr.tag = "IfStatement" -> {instr.condition}
      [] instr.tag = "ForStatement" -> {instr.loop_var_decl, instr.start, instr.end}
      [] instr.tag = "FuncCall" ->
            RangeOf(instr.arguments) \cup {instr.interface_reference.submodule_decl}
      [] OTHER -> {}

\* C6: every FlatID an instruction uses as an operand is the index of an earlier
\* instruction of the same module; the range bounds of an IfStatement or ForStatement
\* point forward, and lie in order between the statement's index and the number of
\* instructions.
C6_OperandsPrecede ==
    \A id \in FlattenedIds :
        LET instructions == modules[id + 1].instructions
        IN  \A i \in 1..Len(instructions) :
               /\ FlatIDsOf(instructions[i]) \subseteq 0..(i - 2)
               /\ instructions[i].tag = "IfStatement" =>
                     /\ i - 1 < instructions[i].then_start
                     /\ instructions[i].then_start <= instructions[i].then_end_else_start
                     /\ instructions[i].then_end_else_start <= instructions[i].else_end
                     /\ instructions[i].else_end <= Len(instructions)
               /\ instructions[i].tag = "ForStatement" =>
                     /\ i - 1 < instructions[i].loop_body[1]
                     /\ instructions[i].loop_body[1] <= instructions[i].loop_body[2]
                     /\ instructions[i].loop_body[2] <= Len(instructions)
\* a module with an if statement that has both branches and one with a for statement
\* whose body writes to an indexed array
C6_Witness ==
    /\ \E id \in FlattenedIds : \E i \in 1..Len(modules[id + 1].instructions) :
          LET instr == modules[id + 1].instructions[i]
          IN  /\ instr.tag = "IfStatement"
              /\ instr.then_start < instr.then_end_else_start
              /\ instr.then_end_else_start < instr.else_end
    /\ \E id \in FlattenedIds : \E i, j \in 1..Len(modules[id + 1].instructions) :
          LET for == modules[id + 1].instructions[i]
              write == modules[id + 1].instructions[j]
          IN  /\ for.tag = "ForStatement"
              /\ write.tag = "Write"
              /\ write.to.path # <<>>
              /\ for.loop_body[1] <= j - 1 /\ j - 1 < for.loop_body[2]

\* the IDs of the Declaration instructions that are ports, in instruction order
PortDeclarations(instructions) ==
    SelectSeq([i \in 1..Len(instructions) |-> i - 1],
              LAMBDA d : /\ At(instructions, d).tag = "Declaration"
                         /\ At(instructions, d).is_input_port # <<>>)
\* C7: after a module is flattened its port Declarations and its ports are one to one:
\* as many of the one as of the other, no port with a PLACEHOLDER declaration, and the
\* k-th port Declaration is the declaration_instruction of the k-th port and has its
\* name span.
C7_PortsOneToOne ==
    \A id \in FlattenedIds :
        LET md == modules[id + 1]
            decls == PortDeclarations(md.instructions)
        IN  /\ Len(decls) = Len(md.ports)
            /\ \A k \in 1..Len(md.ports) :
                  /\ md.ports[k].declaration_instruction # PLACEHOLDER
                  /\ md.ports[k].declaration_instruction = decls[k]
                  /\ At(md.instructions, decls[k]).name_span = md.ports[k].name_span
\* a flattened module with ports of its header, of an interface statement and of a
\* declaration in a nested block
C7_Witness ==
    \E id \in FlattenedIds :
        /\ Len(modules[id + 1].ports) >= 5
        /\ Len(modules[id + 1].interfaces) >= 2

\* C9 as stated: the root of the target of every Write is a local Declaration that is
\* not read_only, or an input port of a submodule.
C9_WriteTargets ==
    \A id \in FlattenedIds :
        LET instructions == modules[id + 1].instructions
        IN  \A i \in 1..Len(instructions) :
               instructions[i].tag = "Write" =>
                  LET root == instructions[i].to.root
                  IN  \/ /\ root.root = "LocalDecl"
                         /\ At(instructions, root.id).tag = "Declaration"
                         /\ ~At(instructions, root.id).read_only
                      \/ /\ root.root = "SubModulePort"
                         /\ root.is_input

\* C10 as stated: no Declaration is both Generative and a port, none is both State and
\* an input port.
C10_NoGenerativeOrStatePort ==
    \A id \in FlattenedIds :
        LET instructions == modules[id + 1].instructions
        IN  \A i \in 1..Len(instructions) :
               instructions[i].tag = "Declaration" =>
                  /\ ~(instructions[i].identifier_type = "Generative" /\ instructions[i].is_input_port # <<>>)
                  /\ ~(instructions[i].identifier_type = "State" /\ instructions[i].is_input_port = <<TRUE>>)
\* C10: after flattening, every Declaration that is both Generative and a port has its
\* own error "Cannot make an input or output generative" in the module's diagnostics,
\* and every Declaration that is both State and an input port has its own error
\* "Inputs cannot be decorated with 'state'"; a module flattened without these errors
\* has no such Declaration.
C10_GenerativeOrStatePortReported ==
    \A id \in FlattenedIds :
        LET md == modules[id + 1]
            GenerativePorts == {i \in 1..Len(md.instructions) :
                                   /\ md.instructions[i].tag = "Declaration"
                                   /\ md.instructions[i].identifier_type = "Generative"
                                   /\ md.instructions[i].is_input_port # <<>>}
            StateInputs == {i \in 1..Len(md.instructions) :
                               /\ md.instructions[i].tag = "Declaration"
                               /\ md.instructions[i].identifier_type = "State"
                               /\ md.instructions[i].is_input_port = <<TRUE>>}
            GenerativeErrors == {e \in 1..Len(md.errors) :
                                    md.errors[e].msg = "Cannot make an input or output generative"}
            StateErrors == {e \in 1..Len(md.errors) :
                               md.errors[e].msg = "Inputs cannot be decorated with 'state'"}
        IN  /\ Cardinality(GenerativePorts) <= Cardinality(GenerativeErrors)
            /\ Cardinality(StateInputs) <= Cardinality(StateErrors)
\* a flattened module with a Generative output port, a State input port, and the errors
C10_Witness ==
    \E id \in FlattenedIds :
        LET md == modules[id + 1]
        IN  /\ \E i \in 1..Len(md.instructions) :
                  /\ md.instructions[i].tag = "Declaration"
                  /\ md.instructions[i].identifier_type = "Generative"
                  /\ md.instructions[i].is_input_port = <<FALSE>>
            /\ \E i \in 1..Len(md.instructions) :
                  /\ md.instructions[i].tag = "Declaration"
                  /\ md.instructions[i].identifier_type = "State"
                  /\ md.instructions[i].is_input_port = <<TRUE>>
            /\ \E e \in 1..Len(md.errors) : md.errors[e].level = "error"

(***************************************************************************)
(* Properties of error handling: what flattening does with erroneous text. *)
(***************************************************************************)
\* C11 as stated: recompile_all runs to completion on every file set: no user error,
\* the indexing of a module among them, stops the pass by a panic.
C11_RunsToCompletion == pc # "panicked"

\* the text a text with an error in a module body was made from
C12_TextWithoutError(t) == IF FileTexts[t] = <<ModuleText("module_array")>> THEN t + 1 ELSE t
\* recompile_all has ended: it returned, or a panic unwound it
C12_RecompileEnded == pc = "panicked" \/ (pc = "idle" /\ compiled)
\* C12 as stated: when one file gets an error in the body of its module, recompile_all
\* leaves the modules of every other file with the instruction lists it leaves them
\* with when the error is not there.
C12_ErrorContainment ==
    C12_RecompileEnded =>
        LET texts == [f \in 1..Len(files) |-> C12_TextWithoutError(files[f].text)]
            without_error == recompiled(FreshLinker(texts, Len(texts)))
        IN  \A f \in 1..Len(files) :
               files[f].text = texts[f] =>
                  \A k \in 1..Len(files[f].associated_values) :
                     modules[files[f].associated_values[k] + 1].instructions
                         = without_error.modules[without_error.files[f].associated_values[k] + 1].instructions

(***************************************************************************)
(* Properties of the span history.  Recording i of a region is the i-th    *)
(* add_debug_span since SpanDebugger::new, counted from 0; its span is     *)
(* touched_span(touch, i).                                                 *)
(***************************************************************************)
\* the recordings the buffer can still hold after n recordings: the last 256
C13_Held(n) ==
    (IF n > SPAN_TOUCH_HISTORY_SIZE THEN n - SPAN_TOUCH_HISTORY_SIZE ELSE 0)..(n - 1)
\* the newest of the held recordings that is of span v
C13_Newest(n, v) ==
    CHOOSE i \in C13_Held(n) :
        /\ touched_span(touch, i) = v
        /\ \A j \in C13_Held(n) : touched_span(touch, j) = v => j <= i
\* sel is what a scan of the held recordings from the newest to the oldest gives: the
\* first 10 distinct spans it meets, in the order it meets them
C13_FirstDistinct(sel, n) ==
    LET spans == {touched_span(touch, i) : i \in C13_Held(n)}
    IN  /\ Len(sel) <= NUM_SPANS_TO_PRINT
        /\ \A j, k \in 1..Len(sel) : j # k => sel[j] # sel[k]
        /\ \A k \in 1..Len(sel) : sel[k] \in spans
        /\ \A j, k \in 1..Len(sel) : j < k => C13_Newest(n, sel[j]) > C13_Newest(n, sel[k])
        /\ \A v \in spans :
              (\A k \in 1..Len(sel) : sel[k] # v) =>
                 /\ Len(sel) = NUM_SPANS_TO_PRINT
                 /\ \A k \in 1..Len(sel) : C13_Newest(n, v) < C13_Newest(n, sel[k])
\* the step drops the SpanDebugger d, which is not defused, in a region
C13_DropsUndefused(d) ==
    /\ ~span_debuggers[d].dropped
    /\ span_debuggers'[d].dropped
    /\ ~span_debuggers[d].defused
    /\ SPANS_HISTORY.in_use

\* C13: when a SpanDebugger that is not defused is dropped, the spans selected for
\* printing are at most 10, pairwise distinct and most recent first: the first 10
\* distinct spans met when the recordings are scanned from the newest to the oldest,
\* all distinct spans if there are fewer than 10.
C13_MostRecentDistinct ==
    [][\A d \in 1..Len(span_debuggers) :
          C13_DropsUndefused(d) =>
             /\ spans_to_print' # <<>>
             /\ C13_FirstDistinct(spans_to_print'[1], SPANS_HISTORY.num_spans)]_vars
\* 10 spans were printed from recordings that cycle through 12 spans, and fewer than 10
\* could have been, had the drop come earlier
C13_Witness ==
    /\ spans_to_print # <<>>
    /\ Len(spans_to_print[1]) = NUM_SPANS_TO_PRINT
    /\ touch = 12
    /\ \E d \in 1..Len(span_debuggers) : span_debuggers[d].dropped /\ ~span_debuggers[d].defused

\* C14: the history is a circular buffer of 256 slots: after n recordings in a region,
\* recording i with max(0, n - 256) <= i < n is held in slot i mod 256, and the spans
\* selected for printing are spans of these recordings: a span recorded only before
\* the last 256 recordings is not selected.
C14_CircularBuffer ==
    /\ [](\A i \in C13_Held(SPANS_HISTORY.num_spans) :
             SPANS_HISTORY.span_history[i % SPAN_TOUCH_HISTORY_SIZE] = touched_span(touch, i))
    /\ [][\A d \in 1..Len(span_debuggers) :
             C13_DropsUndefused(d) =>
                /\ spans_to_print' # <<>>
                /\ \A k \in 1..Len(spans_to_print'[1]) :
                      \E i \in C13_Held(SPANS_HISTORY.num_spans) :
                         spans_to_print'[1][k] = touched_span(touch, i)]_vars
\* more than 256 recordings, the first of them of spans that are not recorded again,
\* and a print that selected the one span of the last 256
C14_Witness ==
    /\ SPANS_HISTORY.num_spans > SPAN_TOUCH_HISTORY_SIZE + 3
    /\ touch = -3
    /\ spans_to_print = <<(<<0>>)>>

\* C15 as stated: at most one SpanDebugger that is not defused exists at a time:
\* SpanDebugger::new succeeds only when every SpanDebugger created before is defused.
C15_SingleActiveRegion ==
    Cardinality({d \in 1..Len(span_debuggers) : ~span_debuggers[d].defused}) <= 1

\* the names the declarations of a module of standalone declarations declare, in order
C16_DeclaredNames(text) ==
    [i \in 1..Len(ModuleText(text).block.stmts) |->
        ModuleText(text).block.stmts[i].items[1].expr_or_decl.name]
\* the IDs of the Declaration and SubModule instructions, in order
C16_NamedIDs(instructions) ==
    SelectSeq([i \in 1..Len(instructions) |-> i - 1],
              LAMBDA id : At(instructions, id).tag \in {"Declaration", "SubModule"})
\* md is what flattening leaves of the module `text`: every declaration has its
\* instruction, and every declaration of a name declared before has its own error with
\* the first declaration of the name
C16_ClashesReported(md, text) ==
    LET names == C16_DeclaredNames(text)
        ids == C16_NamedIDs(md.instructions)
        clashes == {j \in 1..Len(names) : \E i \in 1..(j - 1) : names[i] = names[j]}
        reported == {e \in 1..Len(md.errors) :
                        md.errors[e].msg = "This declaration conflicts with a previous declaration in the same scope"}
    IN  /\ Len(ids) = Len(names)
        /\ \A i \in 1..Len(ids) :
              IF At(md.instructions, ids[i]).tag = "SubModule"
              THEN At(md.instructions, ids[i]).name = <<names[i]>>
              ELSE At(md.instructions, ids[i]).name = names[i]
        /\ Cardinality(reported) = Cardinality(clashes)
        /\ \A j \in clashes :
              \E e \in reported :
                 md.errors[e].info = ids[CHOOSE i \in 1..(j - 1) : names[i] = names[j] /\ i \notin clashes]
\* C16 as stated: a declaration whose name is declared earlier in the frame, by a wire
\* Declaration or by a SubModule, gets one error with the earlier declaration, its
\* instruction is allocated, and flattening goes on with the declarations after it.
C16_NameClashReported ==
    (pc = "panicked" \/ (pc = "idle" /\ compiled)) =>
        \A id \in LiveIds :
            /\ modules[id + 1].name = "cl" => C16_ClashesReported(modules[id + 1], "wire_clash")
            /\ modules[id + 1].name = "sc" => C16_ClashesReported(modules[id + 1], "submodule_clash")

(***************************************************************************)
(* Properties of function calls and expressions.                           *)
(***************************************************************************)
\* the func_call of a statement of the module `calls`, every statement of which has one
C17_CallOf(stmt) ==
    IF stmt.kind = "assign_left_side" THEN stmt.items[1].expr_or_decl
    ELSE IF stmt.assign_value.kind = "func_call" THEN stmt.assign_value
    ELSE stmt.assign_value.left
\* the IDs of the FuncCall instructions, in order
C17_FuncCallIDs(instructions) ==
    SelectSeq([i \in 1..Len(instructions) |-> i - 1],
              LAMBDA id : At(instructions, id).tag = "FuncCall")
\* the errors about the argument count, in order
C17_CountErrors(errors) ==
    SelectSeq(errors, LAMBDA e : e.msg \in {"Excess argument", "Too few arguments"})
\* the i-th call of the module `calls` and its FuncCall fc: as many arguments as inputs,
\* the written ones first, then new error wires allocated right before the FuncCall
C17_ArityOfCall(md, fc, written) ==
    LET arguments == At(md.instructions, fc).arguments
        expected_arg_count == RangeLen(At(md.instructions, fc).func_call_inputs)
    IN  /\ Len(arguments) = expected_arg_count
        /\ \A k \in 1..expected_arg_count :
              /\ At(md.instructions, arguments[k]).tag = "Wire"
              /\ IF k <= written
                 THEN At(md.instructions, arguments[k]).source.src = "WireRef"
                 ELSE /\ At(md.instructions, arguments[k]).source = new_error
                      /\ arguments[k] = fc - (expected_arg_count - k) - 1
\* C17: every FuncCall instruction has as many arguments as the called interface has
\* inputs: excess arguments are cut off, missing ones are new error wires, and one
\* error about the count is recorded for a call exactly when the written count differs
\* from the number of inputs.
C17_ArgumentsMatchInputs ==
    \A id \in FlattenedIds :
        modules[id + 1].name = "k" =>
            LET md == modules[id + 1]
                stmts == ModuleText("calls").block.stmts
                calls == C17_FuncCallIDs(md.instructions)
                written == [i \in 1..Len(stmts) |-> Len(C17_CallOf(stmts[i]).arguments)]
                differs == SelectSeq([i \in 1..Len(stmts) |-> i],
                                     LAMBDA i : written[i] # RangeLen(At(md.instructions, calls[i]).func_call_inputs))
                reported == C17_CountErrors(md.errors)
            IN  /\ Len(calls) = Len(stmts)
                /\ \A i \in 1..Len(calls) : C17_ArityOfCall(md, calls[i], written[i])
                /\ Len(reported) = Len(differs)
                /\ \A j \in 1..Len(differs) :
                      reported[j].msg =
                          IF written[differs[j]] > RangeLen(At(md.instructions, calls[differs[j]]).func_call_inputs)
                          THEN "Excess argument" ELSE "Too few arguments"
\* a module flattened with a call with an argument too many, cut off, a call with an
\* argument too few, padded, and a call whose argument fits
C17_Witness ==
    \E id \in FlattenedIds :
        LET md == modules[id + 1]
            calls == C17_FuncCallIDs(md.instructions)
        IN  /\ md.name = "k"
            /\ \E e \in 1..Len(md.errors) : md.errors[e].msg = "Too few arguments"
            /\ \E e \in 1..Len(md.errors) : md.errors[e].msg = "Excess argument"
            /\ \E i \in 1..Len(calls) :
                  /\ Len(At(md.instructions, calls[i]).arguments) = 1
                  /\ At(md.instructions, At(md.instructions, calls[i]).arguments[1]).source = new_error
            /\ \E i \in 1..Len(calls) :
                  /\ Len(At(md.instructions, calls[i]).arguments) = 1
                  /\ At(md.instructions, At(md.instructions, calls[i]).arguments[1]).source.src = "WireRef"

\* the wire of the i-th call of the module `ce` is the instruction after its FuncCall fc
C18_ResultWire(md, fc) == At(md.instructions, fc + 1)
\* the errors about the number of results of a call in an expression
C18_OneResultErrors(md) ==
    {e \in 1..Len(md.errors) : md.errors[e].msg = "A function called in this context may only return one result"}
\* C18 as stated: the wire of a call in an expression is a WireRef to the output port when
\* the called interface has exactly one output, without an error; for zero or two or
\* more outputs an error is recorded and the wire is an error wire.
C18_OneOutputOrErrorWire ==
    \A id \in FlattenedIds :
        modules[id + 1].name = "ce" =>
            LET md == modules[id + 1]
                calls == C17_FuncCallIDs(md.instructions)
                others == {i \in 1..Len(calls) : RangeLen(At(md.instructions, calls[i]).func_call_outputs) # 1}
            IN  /\ Cardinality(C18_OneResultErrors(md)) = Cardinality(others)
                /\ \A i \in 1..Len(calls) :
                      /\ C18_ResultWire(md, calls[i]).tag = "Wire"
                      /\ IF i \in others
                         THEN C18_ResultWire(md, calls[i]).source = new_error
                         ELSE C18_ResultWire(md, calls[i]).source =
                                  WireRef(simple_port(At(md.instructions, calls[i]).interface_reference.submodule_decl,
                                                      At(md.instructions, calls[i]).func_call_outputs[1], FALSE))
\* C18: the wire of a call in an expression is a WireRef to the first output port of the
\* called interface when it has one or more outputs, an error wire when it has none; an
\* error is recorded for the call exactly when the interface has not exactly one output.
C18_FirstOutputOrErrorWire ==
    \A id \in FlattenedIds :
        modules[id + 1].name = "ce" =>
            LET md == modules[id + 1]
                calls == C17_FuncCallIDs(md.instructions)
                others == {i \in 1..Len(calls) : RangeLen(At(md.instructions, calls[i]).func_call_outputs) # 1}
            IN  /\ Len(calls) = Len(ModuleText("call_expressions").block.stmts)
                /\ Cardinality(C18_OneResultErrors(md)) = Cardinality(others)
                /\ \A i \in 1..Len(calls) :
                      /\ C18_ResultWire(md, calls[i]).tag = "Wire"
                      /\ IF RangeLen(At(md.instructions, calls[i]).func_call_outputs) = 0
                         THEN C18_ResultWire(md, calls[i]).source = new_error
                         ELSE C18_ResultWire(md, calls[i]).source =
                                  WireRef(simple_port(At(md.instructions, calls[i]).interface_reference.submodule_decl,
                                                      At(md.instructions, calls[i]).func_call_outputs[1], FALSE))
\* a module flattened with calls in expressions of interfaces with no, one and two
\* outputs, and the two errors
C18_Witness ==
    \E id \in FlattenedIds :
        LET md == modules[id + 1]
            calls == C17_FuncCallIDs(md.instructions)
        IN  /\ md.name = "ce"
            /\ \A n \in 0..2 :
                  \E i \in 1..Len(calls) : RangeLen(At(md.instructions, calls[i]).func_call_outputs) = n
            /\ Cardinality(C18_OneResultErrors(md)) = 2

\* expressions flatten_expr is called with: numbers, operators, parentheses, calls, names
\* of locals, of submodules, of modules and of nothing, fields and indexings
C19_Expressions ==
    {Num(1), Un("-", Num(1)), Bin(Num(1), "+", Id("a")), Paren(Bin(Id("x"), "*", Num(2))),
     Paren(Id("nothing")), Id("a"), Id("true"), Id("nothing"), Id("m"), Id("inst"),
     Call(Id("m"), <<Num(1)>>), Call(Id("m"), <<>>), Call(Id("p"), <<Id("x")>>), Call(Id("u"), <<>>),
     Call(Id("nothing"), <<Num(1)>>), Call(Id("a"), <<>>), Field(Id("inst"), "b"),
     Field(Id("inst"), "nothing"), Field(Id("a"), "b"), Arr(Id("arr"), Num(0)),
     Arr(Id("a"), Id("nothing")), Arr(Id("nothing"), Num(0)), Arr(Id("m"), Num(0)),
     Bin(Arr(Id("inst"), Num(0)), "+", Num(1))}
\* flatten_expr called with c returned r: the ID of a Wire allocated in the call, the
\* newest instruction
C19_ReturnedNewestWire(c, r) ==
    /\ ~Panicked(r)
    /\ r.ret # PLACEHOLDER
    /\ r.ret >= Len(c.instructions)
    /\ r.ret = Len(r.instructions) - 1
    /\ At(r.instructions, r.ret).tag = "Wire"
\* C19 as stated: every call of flatten_expr, on valid or erroneous input, returns the ID
\* of a Wire instruction allocated during the call, the most recently allocated
\* instruction of the module; here flatten_expr is called at the end of the body of
\* the module that is flattened next.
C19_ExprReturnsNewestWire ==
    (pc = "flatten" /\ cur < Len(FlattenOrder(files))) =>
        LET c == flatten(TheLinker, FlattenOrder(files)[cur + 1])
        IN  ~Panicked(c) =>
               \A e \in C19_Expressions : C19_ReturnedNewestWire(c, flatten_expr(c, e))
\* the calls of flatten_expr that return
C19_ReturningCalls ==
    (pc = "flatten" /\ cur < Len(FlattenOrder(files))) =>
        LET c == flatten(TheLinker, FlattenOrder(files)[cur + 1])
        IN  ~Panicked(c) =>
               \A e \in C19_Expressions :
                  Panicked(flatten_expr(c, e)) \/ C19_ReturnedNewestWire(c, flatten_expr(c, e))

(***************************************************************************)
(* Properties of the instruction list of small modules.                    *)
(***************************************************************************)
\* the ID of the declaration of a port of a module whose declarations are its ports
C20_DeclOf(node, name) ==
    (CHOOSE i \in 1..Len(node.inputs \o node.outputs) : (node.inputs \o node.outputs)[i].name = name) - 1
\* C20 as stated: the module `module m : input int a -> output int b { b = a }` is
\* flattened to three instructions, the declarations of a and b and the Write, and no
\* diagnostics: an assignment between declarations adds the Write only.
C20_ThreeInstructions ==
    \A id \in FlattenedIds :
        NodeOf(TheLinker, id) = ModuleText("passthrough") =>
            /\ Len(modules[id + 1].instructions) = 3
            /\ modules[id + 1].instructions[3].tag = "Write"
            /\ modules[id + 1].errors = <<>>
\* C20: a module whose body assigns ports to ports, as `b = a` does, is flattened to
\* the declarations of the ports and, for every assignment, a Wire that reads the
\* right-hand declaration and then the Write from that Wire to the left-hand
\* declaration, without diagnostics: four instructions for the one statement `b = a`.
C20_WireAndWrite ==
    \A id \in FlattenedIds :
        NodeOf(TheLinker, id) \in {ModuleText("passthrough"), ModuleText("two_outputs")} =>
            LET node == NodeOf(TheLinker, id)
                instructions == modules[id + 1].instructions
                decls == Len(node.inputs) + Len(node.outputs)
                stmts == node.block.stmts
            IN  /\ modules[id + 1].errors = <<>>
                /\ Len(instructions) = decls + 2 * Len(stmts)
                /\ \A i \in 1..decls :
                      /\ instructions[i].tag = "Declaration"
                      /\ instructions[i].name = (node.inputs \o node.outputs)[i].name
                /\ \A i \in 1..Len(stmts) :
                      LET wire == decls + 2 * (i - 1)
                      IN  /\ At(instructions, wire).tag = "Wire"
                          /\ At(instructions, wire).source =
                                 WireRef(WireReference(LocalDecl(C20_DeclOf(node, stmts[i].assign_value.name)), <<>>))
                          /\ At(instructions, wire + 1).tag = "Write"
                          /\ At(instructions, wire + 1).from = wire
                          /\ At(instructions, wire + 1).to =
                                 WireReference(LocalDecl(C20_DeclOf(node, stmts[i].assign_left[1].expr_or_decl.name)), <<>>)
\* the module `b = a` is flattened to four instructions and has no diagnostics
C20_Witness ==
    \E id \in FlattenedIds :
        /\ NodeOf(TheLinker, id) = ModuleText("passthrough")
        /\ Len(modules[id + 1].instructions) = 4
        /\ modules[id + 1].instructions[3].tag = "Wire"
        /\ modules[id + 1].instructions[4].tag = "Write"
        /\ modules[id + 1].errors = <<>>

(***************************************************************************)
(* Properties of the flattening of one module among the others.            *)
(***************************************************************************)
\* the linker with the instruction lists of all modules but module_uuid emptied
C21_OthersEmptied(lk, module_uuid) ==
    [lk EXCEPT !.modules = [i \in 1..Len(lk.modules) |->
                               IF i = module_uuid + 1 THEN lk.modules[i]
                               ELSE [lk.modules[i] EXCEPT !.instructions = <<>>]]]
\* what flatten leaves of the module it works on
C21_Flattened(c) ==
    [instructions |-> c.instructions, errors |-> c.errors, ports |-> c.ports, panic |-> c.panic]
\* C21: flatten(M) changes M only: the ports, interfaces, instruction lists and
\* instantiation lists of every other module are unchanged, and what it makes of M is
\* the same whatever the instruction lists of the other modules are.
C21_OnlyWorkingOnMutated ==
    /\ [][(pc = "flatten" /\ cur' = cur + 1) =>
             /\ Len(modules') = Len(modules)
             /\ \A i \in 1..Len(modules) :
                   i # FlattenedNow + 1 =>
                      /\ modules'[i].ports = modules[i].ports
                      /\ modules'[i].interfaces = modules[i].interfaces
                      /\ modules'[i].instructions = modules[i].instructions
                      /\ modules'[i].instantiations = modules[i].instantiations]_vars
    /\ []((pc = "flatten" /\ cur < Len(FlattenOrder(files))) =>
             C21_Flattened(flatten(TheLinker, FlattenedNow)) =
                 C21_Flattened(flatten(C21_OthersEmptied(TheLinker, FlattenedNow), FlattenedNow)))
\* a module with a FuncCall of a module of an earlier file was flattened: the called
\* module had its instructions then, and has them still
C21_Witness ==
    /\ pc = "typecheck"
    /\ \E id \in FlattenedIds :
          \E i \in 1..Len(modules[id + 1].instructions) :
             /\ modules[id + 1].instructions[i].tag = "SubModule"
             /\ modules[modules[id + 1].instructions[i].module_uuid + 1].file < modules[id + 1].file
             /\ modules[modules[id + 1].instructions[i].module_uuid + 1].instructions # <<>>
             /\ \E j \in 1..Len(modules[id + 1].instructions) :
                   modules[id + 1].instructions[j].tag = "FuncCall"

(***************************************************************************)
(* Properties of the ranges of if and for statements and of scopes.        *)
(***************************************************************************)
\* if statements flatten_if_statement is called with: with and without else, chained,
\* nested in a then block, with empty blocks
C22_IfStatements ==
    {ModuleText("conditions").block.stmts[1],
     ModuleText("conditions").block.stmts[2],
     If(Id("s"), Block(<<If(Bin(Id("a"), "==", Num(2)), Block(<<Set("o", Num(1))>>), <<>>)>>), <<Block(<<>>)>>),
     If(Id("nothing"), Block(<<>>), <<If(Id("s"), Block(<<>>), <<If(Id("s"), Block(<<Set("o", Id("a"))>>), <<>>)>>)>>)}
\* the IfStatements at or after the ID from
C22_IfIDs(instructions, from) ==
    {id \in from..(Len(instructions) - 1) : At(instructions, id).tag = "IfStatement"}
\* the bounds of the IfStatement if_id of an instruction list
C22_Bounds(instructions, if_id) ==
    LET if_stmt == At(instructions, if_id)
    IN  /\ if_stmt.then_start # PLACEHOLDER
        /\ if_stmt.then_end_else_start # PLACEHOLDER
        /\ if_stmt.else_end # PLACEHOLDER
        /\ if_stmt.condition = if_id - 1
        /\ if_stmt.then_start = if_id + 1
        /\ if_stmt.then_start <= if_stmt.then_end_else_start
        /\ if_stmt.then_end_else_start <= if_stmt.else_end
        /\ if_stmt.else_end <= Len(instructions)
\* flatten_if_statement called on node with c returned r: the bounds of the IfStatement
\* it allocated
C22_ReturnedBounds(c, node, r) ==
    LET if_id == CHOOSE id \in C22_IfIDs(r.instructions, Len(c.instructions)) :
                    \A other \in C22_IfIDs(r.instructions, Len(c.instructions)) : id <= other
        if_stmt == At(r.instructions, if_id)
        inner == C22_IfIDs(r.instructions, if_stmt.then_end_else_start)
    IN  /\ C22_IfIDs(r.instructions, Len(c.instructions)) # {}
        /\ \A id \in C22_IfIDs(r.instructions, Len(c.instructions)) : C22_Bounds(r.instructions, id)
        /\ if_stmt.else_end = Len(r.instructions)
        /\ (node.else_block # <<>> /\ node.else_block[1].kind = "if_statement") =>
              /\ inner # {}
              /\ \A id \in inner :
                    /\ At(r.instructions, id).condition >= if_stmt.then_end_else_start
                    /\ id < if_stmt.else_end
                    /\ At(r.instructions, id).else_end <= if_stmt.else_end
\* C22: when flatten_if_statement returns, the IfStatement it allocated has no
\* PLACEHOLDER bound, then_start is the ID after its own, then_start <=
\* then_end_else_start <= else_end, else_end is the next ID to be allocated, and the
\* condition and the IfStatement of a chained else-if lie in its else range; the
\* IfStatements of every flattened module have such bounds.
C22_IfBoundsWritten ==
    /\ \A id \in FlattenedIds :
          \A if_id \in C22_IfIDs(modules[id + 1].instructions, 0) :
             C22_Bounds(modules[id + 1].instructions, if_id)
    /\ (pc = "flatten" /\ cur < Len(FlattenOrder(files))) =>
          LET c == flatten(TheLinker, FlattenedNow)
          IN  ~Panicked(c) =>
                 \A node \in C22_IfStatements :
                    C22_ReturnedBounds(c, node, flatten_if_statement(c, node))
\* a flattened module with a chained else-if: the else range of the outer IfStatement is
\* not empty and holds the inner IfStatement, whose then and else ranges are not empty
C22_Witness ==
    \E id \in FlattenedIds :
        LET instructions == modules[id + 1].instructions
        IN  \E outer, inner \in C22_IfIDs(instructions, 0) :
               /\ At(instructions, outer).then_start < At(instructions, outer).then_end_else_start
               /\ At(instructions, outer).then_end_else_start < inner
               /\ inner < At(instructions, outer).else_end
               /\ At(instructions, inner).then_start < At(instructions, inner).then_end_else_start
               /\ At(instructions, inner).then_end_else_start < At(instructions, inner).else_end
               /\ At(instructions, inner).else_end = At(instructions, outer).else_end

\* for statements flatten_code_keep_context is called with: with a body and without, with
\* written modifiers, an array type and a latency specifier on the loop variable,
\* nested, with bounds that are expressions
C23_ForStatements ==
    {ModuleText("loops").block.stmts[2],
     ModuleText("loops").block.stmts[3],
     For(Decl("input", "state", IntT, "i", 7, <<>>), Num(0), Bin(Id("a"), "+", Num(1)), Block(<<>>)),
     For(Decl("", "gen", ArrT(IntT, Num(2)), "i", 7, <<Num(1)>>), Id("nothing"), Num(3),
         Block(<<For(D("j", 8), Id("i"), Num(2), Block(<<Standalone(<<To(<<>>, D("k", 9))>>)>>))>>))}
\* the ForStatements at or after the ID from
C23_ForIDs(instructions, from) ==
    {id \in from..(Len(instructions) - 1) : At(instructions, id).tag = "ForStatement"}
\* the ForStatement for_id of an instruction list: the loop variable, the bounds, the body
C23_LoopInOrder(instructions, for_id) ==
    LET for_stmt == At(instructions, for_id)
    IN  /\ for_stmt.loop_var_decl # PLACEHOLDER
        /\ At(instructions, for_stmt.loop_var_decl).tag = "Declaration"
        /\ At(instructions, for_stmt.loop_var_decl).identifier_type = "Generative"
        /\ At(instructions, for_stmt.loop_var_decl).read_only
        /\ for_stmt.loop_var_decl < for_stmt.start
        /\ At(instructions, for_stmt.start).tag = "Wire"
        /\ for_stmt.start < for_stmt.end
        /\ At(instructions, for_stmt.end).tag = "Wire"
        /\ for_stmt.end < for_id
        /\ for_stmt.loop_body[1] = for_id + 1
        /\ for_stmt.loop_body[1] <= for_stmt.loop_body[2]
        /\ for_stmt.loop_body[2] <= Len(instructions)
\* the for statement node flattened from c returned r
C23_ReturnedLoop(c, node, r) ==
    LET for_id == CHOOSE id \in C23_ForIDs(r.instructions, Len(c.instructions)) :
                     \A other \in C23_ForIDs(r.instructions, Len(c.instructions)) : id <= other
        for_stmt == At(r.instructions, for_id)
    IN  /\ C23_ForIDs(r.instructions, Len(c.instructions)) # {}
        /\ \A id \in C23_ForIDs(r.instructions, Len(c.instructions)) : C23_LoopInOrder(r.instructions, id)
        /\ for_stmt.loop_var_decl >= Len(c.instructions)
        /\ At(r.instructions, for_stmt.loop_var_decl).name = node.for_decl.name
        /\ for_stmt.loop_body[2] = Len(r.instructions)
        /\ node.block.stmts = <<>> => for_stmt.loop_body[1] = for_stmt.loop_body[2]
\* C23: a for statement is flattened to the Declaration of the loop variable, Generative
\* and read_only whatever modifiers are written, then the start wire, then the end
\* wire, then the ForStatement, and its body range starts after the ForStatement and
\* ends at the next ID to be allocated when the body is done, no PLACEHOLDER left; the
\* range of an empty body starts where it ends.
C23_ForLoopInOrder ==
    /\ \A id \in FlattenedIds :
          \A for_id \in C23_ForIDs(modules[id + 1].instructions, 0) :
             C23_LoopInOrder(modules[id + 1].instructions, for_id)
    /\ (pc = "flatten" /\ cur < Len(FlattenOrder(files))) =>
          LET c == flatten(TheLinker, FlattenedNow)
          IN  ~Panicked(c) =>
                 \A node \in C23_ForStatements :
                    C23_ReturnedLoop(c, node, flatten_for_statement(c, node))
\* a flattened module with a for statement whose body is not empty and one whose body is
C23_Witness ==
    \E id \in FlattenedIds :
        LET instructions == modules[id + 1].instructions
        IN  \E full, empty \in C23_ForIDs(instructions, 0) :
               /\ At(instructions, full).loop_body[1] < At(instructions, full).loop_body[2]
               /\ At(instructions, empty).loop_body[1] = At(instructions, empty).loop_body[2]
               /\ At(instructions, empty).loop_body[1] = empty + 1

(***************************************************************************)
(* Properties of assignments from function calls, wire references and      *)
(* write modifiers.                                                        *)
(***************************************************************************)
\* assignments from a call: as many targets as outputs, fewer, more, a target that is no
\* wire reference, a declaration as target, a call that fails, a call without outputs
C24_Assignments ==
    {Assign(<<To(<<>>, Id("y")), To(<<>>, Id("y2"))>>, Call(Id("p"), <<Id("x")>>)),
     Assign(<<To(<<>>, Id("y"))>>, Call(Id("p"), <<Id("x")>>)),
     Assign(<<To(<<>>, Id("y")), To(<<"reg">>, Id("y2")), To(<<>>, D("t", 7))>>, Call(Id("p"), <<Id("x")>>)),
     Assign(<<To(<<>>, Id("nothing")), To(<<>>, Id("y2"))>>, Call(Id("p"), <<Id("x")>>)),
     Assign(<<To(<<>>, Id("y")), To(<<>>, Id("nothing")), To(<<>>, Id("y2"))>>, Call(Id("m"), <<Id("x")>>)),
     Assign(<<To(<<>>, Id("y")), To(<<>>, Id("y2"))>>, Call(Id("nothing"), <<Id("x")>>)),
     Assign(<<To(<<>>, Id("y")), To(<<>>, Id("y2"))>>, Call(Id("m"), <<>>)),
     Assign(<<To(<<>>, D("t", 7))>>, Call(Id("u"), <<>>))}
\* the targets that are wire references, in order, with the position they are written at
C24_ValidTargets(to) == SelectSeq([i \in 1..Len(to) |-> i], LAMBDA i : to[i] # <<>>)
\* flatten_assign_function_call(to, node) called with c returned r, fc being what
\* flatten_func_call returns for the call
C24_TargetsWritten(c, to, fc, r) ==
    LET valid == C24_ValidTargets(to)
        first == Len(fc.instructions)
        outputs == IF fc.ret = <<>> THEN <<0, 0>>
                   ELSE get_interface_reference(fc, At(fc.instructions, fc.ret[1]).interface_reference).func_call_outputs
        differs == fc.ret # <<>> /\ RangeLen(outputs) # Len(to)
    IN  /\ ~Panicked(r)
        /\ Len(r.instructions) = first + 2 * Len(valid)
        /\ SubSeq(r.instructions, 1, first) = fc.instructions
        /\ \A k \in 1..Len(valid) :
              LET wire == first + 2 * (k - 1)
              IN  /\ At(r.instructions, wire) =
                        WireInstr(IF valid[k] <= RangeLen(outputs)
                                  THEN WireRef(simple_port(At(fc.instructions, fc.ret[1]).interface_reference.submodule_decl,
                                                           outputs[1] + valid[k] - 1, FALSE))
                                  ELSE new_error)
                  /\ At(r.instructions, wire + 1) =
                        WriteInstr(wire, to[valid[k]][1].to, to[valid[k]][1].write_modifiers)
        /\ r.errors = IF ~differs THEN fc.errors
                      ELSE Append(fc.errors,
                                  [level |-> "error",
                                   msg |-> IF Len(to) > RangeLen(outputs)
                                           THEN "Excess output targets" ELSE "Too few output targets",
                                   info |-> PLACEHOLDER])
\* C24: in an assignment from a function call every target that is a wire reference gets
\* exactly one Write: the i-th target from a wire on the i-th output port while there
\* are outputs, every further target, and every target of a call that failed, from an
\* error wire; an output without a target adds no instruction, and one error is
\* recorded exactly when the call succeeded and its outputs are not as many as the
\* targets.
C24_CallOutputsWritten ==
    (pc = "flatten" /\ cur < Len(FlattenOrder(files))) =>
        LET c == flatten(TheLinker, FlattenedNow)
        IN  ~Panicked(c) =>
               \A node \in C24_Assignments :
                  LET left == flatten_assignment_left_side(c, node.assign_left, <<>>)
                  IN  C24_TargetsWritten(left, left.ret, flatten_func_call(left, node.assign_value),
                                         flatten_assign_function_call(left, left.ret, node.assign_value))
\* the module `calls` is about to be flattened, with a module of one output and a module
\* of two to call: its assignments have targets written from output ports and from
\* error wires, and targets that are no wire references
C24_Witness ==
    /\ pc = "flatten"
    /\ cur < Len(FlattenOrder(files))
    /\ modules[FlattenedNow + 1].name = "k"
    /\ LET c == flatten(TheLinker, FlattenedNow)
           left == flatten_assignment_left_side(
                       c, <<To(<<>>, Id("y")), To(<<>>, Id("nothing")), To(<<>>, Id("y2"))>>, <<>>)
           r == flatten_assign_function_call(left, left.ret, Call(Id("m"), <<Id("x")>>))
       IN  /\ ~Panicked(r)
           /\ left.ret[1] # <<>> /\ left.ret[2] = <<>> /\ left.ret[3] # <<>>
           /\ At(r.instructions, Len(r.instructions) - 2) = WireInstr(new_error)
           /\ At(r.instructions, Len(r.instructions) - 4).tag = "Wire"
           /\ At(r.instructions, Len(r.instructions) - 4).source.src = "WireRef"
           /\ \E e \in 1..Len(r.errors) : r.errors[e].msg = "Excess output targets"

\* wire references flatten_wire_reference is called with: names of locals, of types, of
\* modules and of nothing, constants, operators, calls, parentheses, indexings, and
\* fields of global modules, of submodules and of wires
C25_References ==
    {Id("a"), Id("nothing"), Id("int"), Id("m"), Id("true"), Num(1), Un("-", Id("a")),
     Bin(Id("a"), "+", Num(1)), Call(Id("m"), <<>>), Paren(Id("a")), Arr(Id("nothing"), Num(0)),
     Arr(Id("a"), Num(0)), Field(Id("m"), "a"), Field(Id("nothing"), "a"), Field(Id("inst"), "a"),
     Field(Id("inst"), "nothing"), Field(Field(Id("inst"), "m"), "a"), Field(Num(1), "a"),
     Field(Id("a"), "b"), Field(Id("x"), "b"), Field(Arr(Id("arr"), Num(0)), "b")}
\* flatten_wire_reference called with c returned r: an Error comes with an error recorded
\* in the call
C25_ErrorRecorded(c, r) ==
    (~Panicked(r) /\ r.ret.p = "Error") =>
        \E e \in (Len(c.errors) + 1)..Len(r.errors) : r.errors[e].level = "error"
\* C25 as stated: whenever flatten_wire_reference returns PartialWireReference::Error, an
\* error for the reference has been recorded; so for the field of a wire reference.
C25_ErrorHasDiagnostic ==
    (pc = "flatten" /\ cur < Len(FlattenOrder(files))) =>
        LET c == flatten(TheLinker, FlattenedNow)
        IN  ~Panicked(c) =>
               \A node \in C25_References :
                  C25_ErrorRecorded(c, flatten_wire_reference(c, node))

\* the write_modifiers lists flatten_write_modifiers is called with: up to three keywords
C26_WriteModifierLists ==
    UNION {[1..n -> {"reg", "initial"}] : n \in 0..3}
\* flatten_write_modifiers called with c on the keywords wm returned r
C26_ModifiersOrError(c, wm, r) ==
    IF Count(wm, "initial") = 0
    THEN ~Panicked(r) /\ r.ret = Connection(Count(wm, "reg")) /\ r.errors = c.errors
    ELSE IF Count(wm, "initial") = 1 /\ Count(wm, "reg") = 0
    THEN ~Panicked(r) /\ r.ret = Initial /\ r.errors = c.errors
    ELSE /\ ~Panicked(r)
         /\ \E e \in (Len(c.errors) + 1)..Len(r.errors) : r.errors[e].level = "error"
\* C26 as stated: flatten_write_modifiers returns Connection with as many registers as
\* `reg` is written when there is no `initial`, Initial for one `initial` and no `reg`,
\* and for every other combination records an error and lets flattening continue.
C26_WriteModifiers ==
    (pc = "flatten" /\ cur < Len(FlattenOrder(files))) =>
        LET c == flatten(TheLinker, FlattenedNow)
        IN  ~Panicked(c) =>
               \A wm \in C26_WriteModifierLists :
                  C26_ModifiersOrError(c, wm, flatten_write_modifiers(c, wm))

(***************************************************************************)
(* Properties of the regions of the span history.                          *)
(***************************************************************************)
\* a SpanDebugger was dropped without defuse
C27_DroppedUndefused ==
    \E d \in 1..Len(span_debuggers) : span_debuggers[d].dropped /\ ~span_debuggers[d].defused
C28_SlotsOfRegion(n) ==
    {i % SPAN_TOUCH_HISTORY_SIZE : i \in C13_Held(n)}
\* C28: spans recorded before the current region was opened are never printed:
\* SpanDebugger::new sets the recording count to zero and leaves the buffer as it is, and
\* a print selects only contents of slots written since then: not more spans than
\* recordings, never the initial default range, and no content of another slot that no
\* slot of the region holds as well.
C28_EarlierSpansNotPrinted ==
    /\ [][Len(span_debuggers') > Len(span_debuggers) =>
             SPANS_HISTORY' = [SPANS_HISTORY EXCEPT !.in_use = TRUE, !.num_spans = 0]]_vars
    /\ [][\A d \in 1..Len(span_debuggers) :
             C13_DropsUndefused(d) =>
                /\ spans_to_print' # <<>>
                /\ Len(spans_to_print'[1]) <= SPANS_HISTORY.num_spans
                /\ \A k \in 1..Len(spans_to_print'[1]) :
                      /\ spans_to_print'[1][k] # DEFAULT_RANGE
                      /\ \E j \in C28_SlotsOfRegion(SPANS_HISTORY.num_spans) :
                            spans_to_print'[1][k] = SPANS_HISTORY.span_history[j]
                /\ \A j \in 0..(SPAN_TOUCH_HISTORY_SIZE - 1) :
                      (\A i \in C28_SlotsOfRegion(SPANS_HISTORY.num_spans) :
                          SPANS_HISTORY.span_history[i] # SPANS_HISTORY.span_history[j]) =>
                         \A k \in 1..Len(spans_to_print'[1]) :
                            spans_to_print'[1][k] # SPANS_HISTORY.span_history[j]]_vars
\* a first region recorded more than two spans and was defused; the second region
\* recorded two, its SpanDebugger was dropped without defuse and these two were printed,
\* while the buffer still holds a span of the first region and the default range
C28_Witness ==
    /\ touch = 0
    /\ Len(span_debuggers) = 2
    /\ span_debuggers[1].defused
    /\ span_debuggers[2] = [defused |-> FALSE, dropped |-> TRUE]
    /\ SPANS_HISTORY.num_spans = 2
    /\ SPANS_HISTORY.span_history[2] = 2
    /\ SPANS_HISTORY.span_history[SPAN_TOUCH_HISTORY_SIZE - 1] = DEFAULT_RANGE
    /\ spans_to_print = <<(<<1, 0>>)>>

\* every SpanDebugger that was dropped had been defused
C29_DroppedAreDefused ==
    \A d \in 1..Len(span_debuggers) : span_debuggers[d].dropped => span_debuggers[d].defused
\* the SpanDebuggers that are not defused
C29_Open == {d \in 1..Len(span_debuggers) : ~span_debuggers[d].defused}
\* C29: the regions of add_file, update_file and recompile_all never nest or overlap: a
\* SpanDebugger is created only when in_use is clear and every SpanDebugger created
\* before is defused and dropped, and no assertion of SpanDebugger fails; as long as
\* nothing panicked, no SpanDebugger is dropped without defuse, in_use is set exactly
\* while the one SpanDebugger that is not defused exists, which is between the modules of
\* one file in flatten_all_modules, and in_use is clear whenever add_file, update_file
\* or recompile_all has returned.
C29_RegionsNeverNest ==
    /\ [][Len(span_debuggers') > Len(span_debuggers) =>
             /\ ~SPANS_HISTORY.in_use
             /\ Len(span_debuggers') = Len(span_debuggers) + 1
             /\ \A d \in 1..Len(span_debuggers) :
                   span_debuggers[d] = [defused |-> TRUE, dropped |-> TRUE]]_vars
    /\ [](assertion_failed = "")
    /\ [](pc # "panicked" =>
             /\ C29_DroppedAreDefused
             /\ Cardinality(C29_Open) <= 1
             /\ SPANS_HISTORY.in_use <=> C29_Open # {}
             /\ SPANS_HISTORY.in_use => (pc = "flatten" /\ cur > 0 /\ cur < Len(FlattenOrder(files)))
             /\ pc = "idle" => ~SPANS_HISTORY.in_use)
\* a file of two modules is being flattened: its region is open between the two
\* modules, after the regions of two add_file calls, an update_file call and a whole
\* recompile_all were closed
C29_Witness ==
    /\ pc = "flatten"
    /\ SPANS_HISTORY.in_use
    /\ recompiles = 2
    /\ updates = 1
    /\ Len(files) = 2
    /\ compiled
    /\ Len(span_debuggers) >= 8
    /\ C29_Open = {Len(span_debuggers)}
    /\ C29_DroppedAreDefused

(***************************************************************************)
(* Properties of the frames of the local variable context.                 *)
(***************************************************************************)
\* a condition that resolves no name
C30_Cond == Bin(Num(1), "==", Num(1))
\* a for statement whose loop variable is read by its own bounds, and one whose body
\* declares the name of the loop variable
C30_ForOwnBounds == For(D("i", 21), Id("i"), Bin(Id("i"), "+", Num(1)), Block(<<Standalone(<<To(<<>>, D("b30", 22))>>)>>))
C30_ForBodyClash == For(D("i", 21), Num(0), Num(2), Block(<<Standalone(<<To(<<>>, D("i", 22))>>)>>))
\* blocks, if statements and for statements that declare names: a name of their own,
\* the name of a port of the module, the name of the loop variable in a block of the
\* body, names in a then block, an else block and a chained else if
C30_Constructs ==
    {Block(<<Standalone(<<To(<<>>, D("k30", 20))>>), Set("k30", Num(1))>>),
     Block(<<Standalone(<<To(<<>>, D("a", 23))>>), Block(<<Standalone(<<To(<<>>, D("a", 24))>>)>>)>>),
     If(C30_Cond, Block(<<Standalone(<<To(<<>>, D("t30", 20))>>)>>),
        <<Block(<<Standalone(<<To(<<>>, D("e30", 21))>>)>>)>>),
     If(C30_Cond, Block(<<>>),
        <<If(C30_Cond, Block(<<Standalone(<<To(<<>>, D("a", 23))>>), Standalone(<<To(<<>>, D("t30", 20))>>)>>), <<>>)>>),
     C30_ForOwnBounds,
     C30_ForBodyClash,
     For(D("i", 21), Num(0), Num(2),
         Block(<<If(C30_Cond, Block(<<Standalone(<<To(<<>>, D("i", 22))>>)>>), <<>>),
                 For(D("i", 25), Id("i"), Num(2),
                     Block(<<Standalone(<<To(<<>>, D("k30", 26))>>), Set("k30", Id("i"))>>))>>))}
\* the names the constructs declare
C30_Names == {"k30", "t30", "e30", "b30", "i", "a"}
\* r is the context after the construct was flattened in c: the frames are what they
\* were, every name resolves to what it resolved to before, and the names that were
\* not resolvable before are not resolvable
C30_Balanced(c, r) ==
    /\ ~Panicked(r)
    /\ r.lvc = c.lvc
    /\ Len(r.instructions) > Len(c.instructions)
    /\ \A name \in C30_Names \cup {c.lvc.locals[k].name : k \in 1..Len(c.lvc.locals)} :
          /\ get_declaration_for(r.lvc, name) = get_declaration_for(c.lvc, name)
          /\ resolve_identifier(r, name).ret = resolve_identifier(c, name).ret
          /\ (\A k \in 1..Len(c.lvc.locals) : c.lvc.locals[k].name # name) =>
                get_declaration_for(r.lvc, name) = <<>>
\* r is the context after C30_ForOwnBounds was flattened in c: the start wire reads the
\* loop variable, the end expression reads it too, and no error is reported
C30_OwnBounds(c, r) ==
    LET loop_var_decl == Len(c.instructions)
        for_stmt == At(r.instructions, loop_var_decl + 5)
        loop_var == WireInstr(WireRef(WireReference(LocalDecl(loop_var_decl), <<>>)))
    IN  /\ for_stmt.tag = "ForStatement"
        /\ for_stmt.loop_var_decl = loop_var_decl
        /\ At(r.instructions, loop_var_decl).name = "i"
        /\ for_stmt.start = loop_var_decl + 1
        /\ At(r.instructions, for_stmt.start) = loop_var
        /\ At(r.instructions, loop_var_decl + 2) = loop_var
        /\ At(r.instructions, for_stmt.end).source.left = loop_var_decl + 2
        /\ r.errors = c.errors
\* r is the context after C30_ForBodyClash was flattened in c: the declaration of the
\* body is reported as conflicting with the loop variable, and nothing else is
C30_BodyClash(c, r) ==
    r.errors = Append(c.errors,
                      [level |-> "error",
                       msg |-> "This declaration conflicts with a previous declaration in the same scope",
                       info |-> Len(c.instructions)])
\* C30: the frames are balanced: after a block, an if statement or a for statement is
\* flattened the local variable context is what it was before it, so the names declared
\* inside, a loop variable too, are not resolvable any more and the names of before
\* resolve as before; in a for statement the loop variable is resolvable in its own
\* start and end expressions, and a declaration of its name in the body conflicts with
\* it, while one in a block of the body or of the name of a port in any block does not.
C30_FramesBalanced ==
    (pc = "flatten" /\ cur < Len(FlattenOrder(files))) =>
        LET c == flatten(TheLinker, FlattenedNow)
        IN  ~Panicked(c) =>
               /\ \A node \in C30_Constructs : C30_Balanced(c, flatten_statement(c, node))
               /\ \A node \in C30_Constructs \ {C30_ForBodyClash} :
                     flatten_statement(c, node).errors = c.errors
               /\ C30_OwnBounds(c, flatten_statement(c, C30_ForOwnBounds))
               /\ C30_BodyClash(c, flatten_statement(c, C30_ForBodyClash))
\* the module that is flattened has ports, whose names are resolvable before and after
\* each of the constructs, and none of the names the constructs declare but `a` is
C30_Witness ==
    /\ pc = "flatten"
    /\ cur < Len(FlattenOrder(files))
    /\ ~Panicked(flatten(TheLinker, FlattenedNow))
    /\ Len(flatten(TheLinker, FlattenedNow).lvc.locals) = 2
    /\ get_declaration_for(flatten(TheLinker, FlattenedNow).lvc, "a") = <<0>>
    /\ get_declaration_for(flatten_statement(flatten(TheLinker, FlattenedNow), C30_ForBodyClash).lvc, "a") = <<0>>
    /\ get_declaration_for(flatten_statement(flatten(TheLinker, FlattenedNow), C30_ForBodyClash).lvc, "i") = <<>>

====
